---- MODULE Spec2Model ----
(***************************************************************************)
(* State-machine model of the GBDebugger repository.                       *)
(*                                                                         *)
(* Two objects are modelled, each with the external library state it owns: *)
(*   - GBDebugger       (src/src/GBDebugger.cpp), the Coordinator;         *)
(*   - DebuggerBackend  (src/src/DebuggerBackend.cpp).                     *)
(* Every public method is one action.  The last call made, with its        *)
(* arguments, its return value and the external (ImGui/SDL/GL) calls it    *)
(* issued, is kept in the history variable `call`.                         *)
(***************************************************************************)
EXTENDS Integers, Sequences, FiniteSets, TLC

(***************************************************************************)
(* Program constants and model bounds                                      *)
(***************************************************************************)

\* The size UpdateMemory insists on, and the length of MemoryState::buffer.
MEMORY_SIZE == 65536

\* Cap on the number of live external resources of one kind owned by one
\* object.  The code never holds more than one; the cap only keeps the state
\* space finite.
MaxLive == 2

\* The null pointer / null handle.
NULL == "null"

(***************************************************************************)
(* Memory images                                                           *)
(*                                                                         *)
(* A 65536-byte array is represented exactly by the function from the      *)
(* addresses that hold a non-zero byte to that byte; every other address   *)
(* of 0..65535 holds 0.  The representation is canonical: two images are   *)
(* equal iff the arrays are equal byte for byte.                           *)
(***************************************************************************)

Addresses == 0 .. (MEMORY_SIZE - 1)

ZeroImage == [a \in {} |-> 0]

\* MemoryState::Read
Read(image, a) == IF a \in DOMAIN image THEN image[a] ELSE 0

\* Faulty variant of MemCopy: copies one byte too few.
MemCopy_ShortByOne(dst, src, n) ==
    LET keep == {a \in DOMAIN dst : a >= n - 1}
        take == {a \in DOMAIN src : a < n - 1}
    IN  [a \in keep \cup take |-> IF a < n - 1 THEN src[a] ELSE dst[a]]

\* std::memcpy(dst, src, n): the first n bytes come from src, the rest of dst
\* is kept.
MemCopy(dst, src, n) ==
    LET keep == {a \in DOMAIN dst : a >= n}
        take == {a \in DOMAIN src : a < n}
    IN  [a \in keep \cup take |-> IF a < n THEN src[a] ELSE dst[a]]

\* Byte-for-byte equality over the whole address space.  Outside the two
\* supports both images read 0, so the supports decide it.
SameBytes(m1, m2) ==
    \A a \in DOMAIN m1 \cup DOMAIN m2 : Read(m1, a) = Read(m2, a)

\* Caller-side buffers handed to UpdateMemory, by pointer.
BufferPtrs == {NULL, "buf_zero", "buf_ab", "buf_cd"}

Deref(p) ==
    CASE p = "buf_ab" -> (4660 :> 171)                             \* 0xAB at 0x1234
      [] p = "buf_cd" -> (0 :> 1) @@ (4660 :> 18) @@ (65535 :> 205) \* 0xCD at 0xFFFF
      [] p = "buf_ramp" -> [a \in 1..255 |-> a]                    \* every byte value
      [] OTHER        -> ZeroImage

\* Sizes handed to UpdateMemory.
Sizes == {0, 65535, 65536, 65537}

(***************************************************************************)
(* CPU snapshots                                                           *)
(***************************************************************************)

\* GBDebugger::GBDebugger zeroes every field.
ZeroCPU ==
    [cycle |-> 0, pc |-> 0, sp |-> 0, af |-> 0, bc |-> 0, de |-> 0, hl |-> 0,
     ime |-> FALSE]

\* Argument tuples handed to UpdateCPU; any two differ in every field.
CPUInputs ==
    { [cycle |-> 12345, pc |-> 4660, sp |-> 65534, af |-> 44016, bc |-> 4386,
       de |-> 13124, hl |-> 21862, ime |-> TRUE],
      [cycle |-> 13345, pc |-> 336, sp |-> 65532, af |-> 432, bc |-> 19,
       de |-> 216, hl |-> 333, ime |-> FALSE] }

(***************************************************************************)
(* Platform events                                                         *)
(***************************************************************************)

\* SDL_GetWindowID: one id per window.
SDL_GetWindowID(w) ==
    CASE w = "dbg_window"     -> "id_dbg"
      [] w = "backend_window" -> "id_backend"
      [] OTHER                -> "id_none"

NoEvent == [present |-> FALSE, type |-> "none", event |-> "none", windowID |-> "id_none"]

\* A null event pointer, close events for each window and for a foreign one,
\* and an event that is no window event.
Events ==
    { NoEvent,
      [present |-> TRUE, type |-> "SDL_WINDOWEVENT", event |-> "SDL_WINDOWEVENT_CLOSE",
       windowID |-> "id_dbg"],
      [present |-> TRUE, type |-> "SDL_WINDOWEVENT", event |-> "SDL_WINDOWEVENT_CLOSE",
       windowID |-> "id_backend"],
      [present |-> TRUE, type |-> "SDL_WINDOWEVENT", event |-> "SDL_WINDOWEVENT_CLOSE",
       windowID |-> "id_other"],
      [present |-> TRUE, type |-> "SDL_KEYDOWN", event |-> "none", windowID |-> "id_dbg"] }

IsCloseEventFor(ev, w) ==
    /\ ev.type = "SDL_WINDOWEVENT"
    /\ ev.event = "SDL_WINDOWEVENT_CLOSE"
    /\ w # NULL
    /\ ev.windowID = SDL_GetWindowID(w)

(***************************************************************************)
(* External library state owned by one object                              *)
(*                                                                         *)
(* imgui, window, gl, impl: number of live ImGui contexts, SDL windows, GL *)
(* contexts and initialised ImGui SDL2/OpenGL3 backends; bad_release: a    *)
(* resource was released that was not held; in_frame: an ImGui frame has   *)
(* been begun and not yet ended.                                           *)
(***************************************************************************)

NoResources ==
    [imgui |-> 0, window |-> 0, gl |-> 0, impl |-> 0, bad_release |-> FALSE,
     in_frame |-> FALSE]

Acquire(e, r) == [e EXCEPT ![r] = @ + 1]

Release(e, r) ==
    IF e[r] > 0 THEN [e EXCEPT ![r] = @ - 1] ELSE [e EXCEPT !.bad_release = TRUE]

\* ImGui::DestroyContext also discards the frame in progress.
DestroyContext(e) == [Release(e, "imgui") EXCEPT !.in_frame = FALSE]

Outcome(d, e, ret, calls) == [d |-> d, e |-> e, ret |-> ret, calls |-> calls]

(***************************************************************************)
(* GBDebugger (the Coordinator): src/src/GBDebugger.cpp                    *)
(*                                                                         *)
(* Each method is an operator from the object's fields d and its library   *)
(* state e (and the method's arguments and the outcomes of the library     *)
(* calls that can fail) to an Outcome: the new d and e, the value          *)
(* returned ("true", "false" or "void") and the external calls issued.     *)
(***************************************************************************)

\* Faulty variant of the constructor: should_close_ starts true.
GBDebugger_New_CloseRequested ==
    [is_open_         |-> FALSE,
     sdl_window_      |-> NULL,
     gl_context_      |-> NULL,
     sdl_initialized_ |-> FALSE,
     should_close_    |-> TRUE,
     cpu_state_       |-> ZeroCPU,
     memory_state_    |-> [buffer |-> ZeroImage, is_valid |-> FALSE]]

\* GBDebugger::GBDebugger, with MemoryState::MemoryState.
GBDebugger_New ==
    [is_open_         |-> FALSE,
     sdl_window_      |-> NULL,
     gl_context_      |-> NULL,
     sdl_initialized_ |-> FALSE,
     should_close_    |-> FALSE,
     cpu_state_       |-> ZeroCPU,
     memory_state_    |-> [buffer |-> ZeroImage, is_valid |-> FALSE]]

\* Faulty variant of GBDebugger::Open: the `if (is_open_) return true` guard is
\* missing.
GBDebugger_Open_NoGuard(d, e, ctxOk) ==
    IF ~ctxOk THEN Outcome(d, e, "false", <<"ImGui::CreateContext">>)
    ELSE Outcome([d EXCEPT !.is_open_ = TRUE],
                 Acquire(e, "imgui"),
                 "true",
                 <<"ImGui::CreateContext", "ImGui::GetIO", "GetTexDataAsRGBA32">>)

\* GBDebugger::Open.  ctxOk: ImGui::CreateContext left a current context.
GBDebugger_Open(d, e, ctxOk) ==
    IF d.is_open_ THEN Outcome(d, e, "true", <<>>)
    ELSE IF ~ctxOk THEN Outcome(d, e, "false", <<"ImGui::CreateContext">>)
    ELSE Outcome([d EXCEPT !.is_open_ = TRUE],
                 Acquire(e, "imgui"),
                 "true",
                 <<"ImGui::CreateContext", "ImGui::GetIO", "GetTexDataAsRGBA32">>)

\* The body of `if (sdl_initialized_) { ... }` in GBDebugger::Close.
GBDebugger_CloseSDL(d, e) ==
    LET e1 == Release(e, "impl")
        e2 == IF d.gl_context_ # NULL THEN Release(e1, "gl") ELSE e1
        e3 == IF d.sdl_window_ # NULL THEN Release(e2, "window") ELSE e2
    IN  Outcome([d EXCEPT !.gl_context_ = NULL, !.sdl_window_ = NULL,
                          !.sdl_initialized_ = FALSE],
                e3,
                "void",
                <<"ImGui_ImplOpenGL3_Shutdown", "ImGui_ImplSDL2_Shutdown">>
                  \o (IF d.gl_context_ # NULL THEN <<"SDL_GL_DeleteContext">> ELSE <<>>)
                  \o (IF d.sdl_window_ # NULL THEN <<"SDL_DestroyWindow">> ELSE <<>>))

\* Faulty variant of GBDebugger::Close: the `if (!is_open_) return` guard is
\* missing.
GBDebugger_Close_NoGuard(d, e) ==
    LET s == IF d.sdl_initialized_ THEN GBDebugger_CloseSDL(d, e)
             ELSE Outcome(d, e, "void", <<>>)
    IN  Outcome([s.d EXCEPT !.is_open_ = FALSE, !.should_close_ = FALSE],
                DestroyContext(s.e),
                "void",
                s.calls \o <<"ImGui::DestroyContext">>)

\* GBDebugger::Close.
GBDebugger_Close(d, e) ==
    IF ~d.is_open_ THEN Outcome(d, e, "void", <<>>)
    ELSE LET s == IF d.sdl_initialized_ THEN GBDebugger_CloseSDL(d, e)
                  ELSE Outcome(d, e, "void", <<>>)
         IN  Outcome([s.d EXCEPT !.is_open_ = FALSE, !.should_close_ = FALSE],
                     DestroyContext(s.e),
                     "void",
                     s.calls \o <<"ImGui::DestroyContext">>)

\* Faulty variant of GBDebugger::InitSDL: the window is kept when the GL
\* context cannot be created.
GBDebugger_InitSDL_KeepsWindow(d, e, ctxOk, winOk, glOk) ==
    LET o == IF ~d.is_open_ THEN GBDebugger_Open(d, e, ctxOk)
             ELSE Outcome(d, e, "true", <<>>)
    IN  IF o.ret = "false" THEN o
        ELSE IF o.d.sdl_initialized_ THEN Outcome(o.d, o.e, "true", o.calls)
        ELSE IF ~winOk THEN
            Outcome([o.d EXCEPT !.sdl_window_ = NULL], o.e, "false",
                    o.calls \o <<"SDL_GL_SetAttribute", "SDL_CreateWindow">>)
        ELSE IF ~glOk THEN
            Outcome([o.d EXCEPT !.sdl_window_ = "dbg_window", !.gl_context_ = NULL],
                    Acquire(o.e, "window"),
                    "false",
                    o.calls \o <<"SDL_GL_SetAttribute", "SDL_CreateWindow",
                                 "SDL_GL_CreateContext">>)
        ELSE
            Outcome([o.d EXCEPT !.sdl_window_ = "dbg_window", !.gl_context_ = "dbg_gl",
                                !.sdl_initialized_ = TRUE, !.should_close_ = FALSE],
                    Acquire(Acquire(Acquire(o.e, "window"), "gl"), "impl"),
                    "true",
                    o.calls \o <<"SDL_GL_SetAttribute", "SDL_CreateWindow",
                                 "SDL_GL_CreateContext", "SDL_GL_MakeCurrent",
                                 "SDL_GL_SetSwapInterval", "ImGui_ImplSDL2_InitForOpenGL",
                                 "ImGui_ImplOpenGL3_Init">>)

\* GBDebugger::InitSDL.  winOk, glOk: SDL_CreateWindow and
\* SDL_GL_CreateContext returned a handle.
GBDebugger_InitSDL(d, e, ctxOk, winOk, glOk) ==
    LET o == IF ~d.is_open_ THEN GBDebugger_Open(d, e, ctxOk)
             ELSE Outcome(d, e, "true", <<>>)
    IN  IF o.ret = "false" THEN o
        ELSE IF o.d.sdl_initialized_ THEN Outcome(o.d, o.e, "true", o.calls)
        ELSE IF ~winOk THEN
            Outcome([o.d EXCEPT !.sdl_window_ = NULL], o.e, "false",
                    o.calls \o <<"SDL_GL_SetAttribute", "SDL_CreateWindow">>)
        ELSE IF ~glOk THEN
            Outcome([o.d EXCEPT !.sdl_window_ = NULL, !.gl_context_ = NULL],
                    Release(Acquire(o.e, "window"), "window"),
                    "false",
                    o.calls \o <<"SDL_GL_SetAttribute", "SDL_CreateWindow",
                                 "SDL_GL_CreateContext", "SDL_DestroyWindow">>)
        ELSE
            Outcome([o.d EXCEPT !.sdl_window_ = "dbg_window", !.gl_context_ = "dbg_gl",
                                !.sdl_initialized_ = TRUE, !.should_close_ = FALSE],
                    Acquire(Acquire(Acquire(o.e, "window"), "gl"), "impl"),
                    "true",
                    o.calls \o <<"SDL_GL_SetAttribute", "SDL_CreateWindow",
                                 "SDL_GL_CreateContext", "SDL_GL_MakeCurrent",
                                 "SDL_GL_SetSwapInterval", "ImGui_ImplSDL2_InitForOpenGL",
                                 "ImGui_ImplOpenGL3_Init">>)

\* Faulty variant of GBDebugger::ProcessSDLEvent: the event's windowID is not
\* compared with the debugger's window.
GBDebugger_ProcessSDLEvent_AnyWindow(d, e, ev) ==
    IF ~d.sdl_initialized_ \/ ~ev.present THEN Outcome(d, e, "void", <<>>)
    ELSE Outcome(IF ev.type = "SDL_WINDOWEVENT" /\ ev.event = "SDL_WINDOWEVENT_CLOSE"
                 THEN [d EXCEPT !.should_close_ = TRUE] ELSE d,
                 e, "void", <<"ImGui_ImplSDL2_ProcessEvent">>)

\* GBDebugger::ProcessSDLEvent.
GBDebugger_ProcessSDLEvent(d, e, ev) ==
    IF ~d.sdl_initialized_ \/ ~ev.present THEN Outcome(d, e, "void", <<>>)
    ELSE Outcome(IF IsCloseEventFor(ev, d.sdl_window_)
                 THEN [d EXCEPT !.should_close_ = TRUE] ELSE d,
                 e, "void", <<"ImGui_ImplSDL2_ProcessEvent">>)

\* GBDebugger::BeginFrame.
GBDebugger_BeginFrame(d, e) ==
    IF ~d.sdl_initialized_ THEN Outcome(d, e, "void", <<>>)
    ELSE Outcome(d, [e EXCEPT !.in_frame = TRUE], "void",
                 <<"ImGui_ImplOpenGL3_NewFrame", "ImGui_ImplSDL2_NewFrame",
                   "ImGui::NewFrame">>)

\* GBDebugger::EndFrame.
GBDebugger_EndFrame(d, e) ==
    IF ~d.sdl_initialized_ THEN Outcome(d, e, "void", <<>>)
    ELSE Outcome(d, [e EXCEPT !.in_frame = FALSE], "void",
                 <<"ImGui::Render", "glViewport", "glClearColor", "glClear",
                   "ImGui_ImplOpenGL3_RenderDrawData", "SDL_GL_SwapWindow">>)

\* Faulty variant of GBDebugger::UpdateCPU: the update is dropped while the
\* Coordinator is closed.
GBDebugger_UpdateCPU_OnlyWhenOpen(d, c) ==
    IF d.is_open_ THEN [d EXCEPT !.cpu_state_ = c] ELSE d

\* Faulty variant of GBDebugger::UpdateCPU: the assignment of hl is missing.
GBDebugger_UpdateCPU_KeepsHL(d, c) ==
    [d EXCEPT !.cpu_state_ = [c EXCEPT !.hl = d.cpu_state_.hl]]

\* GBDebugger::UpdateCPU: eight assignments.
GBDebugger_UpdateCPU(d, c) ==
    [d EXCEPT !.cpu_state_.cycle = c.cycle,
              !.cpu_state_.pc    = c.pc,
              !.cpu_state_.sp    = c.sp,
              !.cpu_state_.af    = c.af,
              !.cpu_state_.bc    = c.bc,
              !.cpu_state_.de    = c.de,
              !.cpu_state_.hl    = c.hl,
              !.cpu_state_.ime   = c.ime]

\* Faulty variant of GBDebugger::UpdateMemory: the size check is missing.
GBDebugger_UpdateMemory_NoSizeCheck(d, buffer, size) ==
    IF buffer = NULL THEN [d |-> d, ret |-> "false"]
    ELSE [d   |-> [d EXCEPT !.memory_state_.buffer =
                               MemCopy(d.memory_state_.buffer, Deref(buffer), size),
                            !.memory_state_.is_valid = TRUE],
          ret |-> "true"]

\* Faulty variant of GBDebugger::UpdateMemory: the validity flag is set before
\* the arguments are validated.
GBDebugger_UpdateMemory_ValidBeforeCheck(d, buffer, size) ==
    LET v == [d EXCEPT !.memory_state_.is_valid = TRUE]
    IN  IF buffer = NULL THEN [d |-> v, ret |-> "false"]
        ELSE IF size # 65536 THEN [d |-> v, ret |-> "false"]
        ELSE [d   |-> [v EXCEPT !.memory_state_.buffer =
                                   MemCopy(d.memory_state_.buffer, Deref(buffer), size)],
              ret |-> "true"]

\* GBDebugger::UpdateMemory: the new fields and the value returned.
GBDebugger_UpdateMemory(d, buffer, size) ==
    IF buffer = NULL THEN [d |-> d, ret |-> "false"]
    ELSE IF size # 65536 THEN [d |-> d, ret |-> "false"]
    ELSE [d   |-> [d EXCEPT !.memory_state_.buffer =
                               MemCopy(d.memory_state_.buffer, Deref(buffer), size),
                            !.memory_state_.is_valid = TRUE],
          ret |-> "true"]

\* GBDebugger::RenderCPUStatePanel, RenderFlagsPanel, RenderMemoryViewer: the
\* window each opens and closes, and for the memory viewer which of its two
\* bodies runs.
RenderCPUStatePanel(d) == <<"ImGui::Begin(CPU State)", "ImGui::End">>

RenderFlagsPanel(d) == <<"ImGui::Begin(CPU Flags)", "ImGui::End">>

RenderMemoryViewer(d) ==
    IF ~d.memory_state_.is_valid
    THEN <<"ImGui::Begin(Memory Viewer)", "ImGui::Text(No memory data available)",
           "ImGui::End">>
    ELSE <<"ImGui::Begin(Memory Viewer)", "ImGui::PushFont", "rows", "ImGui::PopFont",
           "ImGui::End">>

\* The panels GBDebugger::Render draws, in the order it draws them.
GBDebugger_RenderPanels(d) ==
    RenderCPUStatePanel(d) \o RenderFlagsPanel(d) \o RenderMemoryViewer(d)

\* Faulty variant of GBDebugger::Render: the frame is begun and ended in SDL
\* mode as well.
GBDebugger_Render_AlwaysFrames(d, e) ==
    IF ~d.is_open_ THEN Outcome(d, e, "void", <<>>)
    ELSE Outcome(d, [e EXCEPT !.in_frame = FALSE], "void",
                 <<"ImGui::NewFrame">> \o GBDebugger_RenderPanels(d) \o <<"ImGui::Render">>)

\* Faulty variant of GBDebugger::Render: the `if (!is_open_) return` guard is
\* missing.
GBDebugger_Render_NoGuard(d, e) ==
    IF d.sdl_initialized_ THEN Outcome(d, e, "void", GBDebugger_RenderPanels(d))
    ELSE Outcome(d, [e EXCEPT !.in_frame = FALSE], "void",
                 <<"ImGui::NewFrame">> \o GBDebugger_RenderPanels(d) \o <<"ImGui::Render">>)

\* GBDebugger::Render.
GBDebugger_Render(d, e) ==
    IF ~d.is_open_ THEN Outcome(d, e, "void", <<>>)
    ELSE IF d.sdl_initialized_ THEN Outcome(d, e, "void", GBDebugger_RenderPanels(d))
    ELSE Outcome(d, [e EXCEPT !.in_frame = FALSE], "void",
                 <<"ImGui::NewFrame">> \o GBDebugger_RenderPanels(d) \o <<"ImGui::Render">>)

(***************************************************************************)
(* DebuggerBackend: src/src/DebuggerBackend.cpp                            *)
(***************************************************************************)

\* DebuggerBackend::DebuggerBackend.
DebuggerBackend_New ==
    [window_ |-> NULL, gl_context_ |-> NULL, initialized_ |-> FALSE,
     should_close_ |-> FALSE]

\* DebuggerBackend::Initialize.
DebuggerBackend_Initialize(b, e, ctxOk, winOk, glOk) ==
    IF b.initialized_ THEN Outcome(b, e, "true", <<>>)
    ELSE IF ~ctxOk THEN Outcome(b, e, "false", <<"ImGui::CreateContext">>)
    ELSE IF ~winOk THEN
        Outcome([b EXCEPT !.window_ = NULL],
                DestroyContext(Acquire(e, "imgui")),
                "false",
                <<"ImGui::CreateContext", "SDL_GL_SetAttribute", "SDL_CreateWindow",
                  "ImGui::DestroyContext">>)
    ELSE IF ~glOk THEN
        Outcome([b EXCEPT !.window_ = NULL, !.gl_context_ = NULL],
                DestroyContext(Release(Acquire(Acquire(e, "imgui"), "window"), "window")),
                "false",
                <<"ImGui::CreateContext", "SDL_GL_SetAttribute", "SDL_CreateWindow",
                  "SDL_GL_CreateContext", "SDL_DestroyWindow", "ImGui::DestroyContext">>)
    ELSE
        Outcome([b EXCEPT !.window_ = "backend_window", !.gl_context_ = "backend_gl",
                          !.initialized_ = TRUE, !.should_close_ = FALSE],
                Acquire(Acquire(Acquire(Acquire(e, "imgui"), "window"), "gl"), "impl"),
                "true",
                <<"ImGui::CreateContext", "SDL_GL_SetAttribute", "SDL_CreateWindow",
                  "SDL_GL_CreateContext", "SDL_GL_MakeCurrent", "SDL_GL_SetSwapInterval",
                  "ImGui_ImplSDL2_InitForOpenGL", "ImGui_ImplOpenGL3_Init", "ImGui::GetIO",
                  "GetTexDataAsRGBA32">>)

\* DebuggerBackend::Shutdown.
DebuggerBackend_Shutdown(b, e) ==
    IF ~b.initialized_ THEN Outcome(b, e, "void", <<>>)
    ELSE LET e1 == Release(e, "impl")
             e2 == IF b.gl_context_ # NULL THEN Release(e1, "gl") ELSE e1
             e3 == IF b.window_ # NULL THEN Release(e2, "window") ELSE e2
         IN  Outcome([b EXCEPT !.gl_context_ = NULL, !.window_ = NULL,
                               !.initialized_ = FALSE, !.should_close_ = FALSE],
                     DestroyContext(e3),
                     "void",
                     <<"ImGui_ImplOpenGL3_Shutdown", "ImGui_ImplSDL2_Shutdown">>
                       \o (IF b.gl_context_ # NULL THEN <<"SDL_GL_DeleteContext">> ELSE <<>>)
                       \o (IF b.window_ # NULL THEN <<"SDL_DestroyWindow">> ELSE <<>>)
                       \o <<"ImGui::DestroyContext">>)

\* DebuggerBackend::ProcessEvent.
DebuggerBackend_ProcessEvent(b, e, ev) ==
    IF ~b.initialized_ \/ ~ev.present THEN Outcome(b, e, "void", <<>>)
    ELSE Outcome(IF IsCloseEventFor(ev, b.window_)
                 THEN [b EXCEPT !.should_close_ = TRUE] ELSE b,
                 e, "void", <<"ImGui_ImplSDL2_ProcessEvent">>)

\* DebuggerBackend::BeginFrame.
DebuggerBackend_BeginFrame(b, e) ==
    IF ~b.initialized_ THEN Outcome(b, e, "void", <<>>)
    ELSE Outcome(b, [e EXCEPT !.in_frame = TRUE], "void",
                 <<"ImGui_ImplOpenGL3_NewFrame", "ImGui_ImplSDL2_NewFrame",
                   "ImGui::NewFrame">>)

\* Faulty variant of DebuggerBackend::EndFrame: the `if (!initialized_) return`
\* guard is missing.
DebuggerBackend_EndFrame_NoGuard(b, e) ==
    Outcome(b, [e EXCEPT !.in_frame = FALSE], "void",
            <<"ImGui::Render", "glViewport", "glClearColor", "glClear",
              "ImGui_ImplOpenGL3_RenderDrawData", "SDL_GL_SwapWindow">>)

\* DebuggerBackend::EndFrame.
DebuggerBackend_EndFrame(b, e) ==
    IF ~b.initialized_ THEN Outcome(b, e, "void", <<>>)
    ELSE Outcome(b, [e EXCEPT !.in_frame = FALSE], "void",
                 <<"ImGui::Render", "glViewport", "glClearColor", "glClear",
                   "ImGui_ImplOpenGL3_RenderDrawData", "SDL_GL_SwapWindow">>)

(***************************************************************************)
(* CPUState: src/include/DebuggerTypes.h                                   *)
(***************************************************************************)

\* The bitwise & of two naturals.
RECURSIVE BitAnd(_, _)
BitAnd(x, y) ==
    IF x = 0 \/ y = 0 THEN 0
    ELSE (x % 2) * (y % 2) + 2 * BitAnd(x \div 2, y \div 2)

\* x >> n for a natural x.
RECURSIVE ShiftRight(_, _)
ShiftRight(x, n) == IF n = 0 THEN x ELSE ShiftRight(x \div 2, n - 1)

\* The conversion of a natural to uint8_t.
ToUint8(x) == x % 256

\* CPUState::GetZFlag .. GetCFlag.
GetZFlag(c) == BitAnd(c.af, 128) # 0

GetNFlag(c) == BitAnd(c.af, 64) # 0

GetHFlag(c) == BitAnd(c.af, 32) # 0

\* The carry flag read with mask 0x08 in place of 0x10.
GetCFlag_WrongBit(c) == BitAnd(c.af, 8) # 0

GetCFlag(c) == BitAnd(c.af, 16) # 0

\* CPUState::GetA .. GetL.
GetA(c) == ToUint8(BitAnd(ShiftRight(c.af, 8), 255))

GetF(c) == ToUint8(BitAnd(c.af, 255))

\* B read without the shift: the low byte of BC.
GetB_NoShift(c) == ToUint8(BitAnd(c.bc, 255))

GetB(c) == ToUint8(BitAnd(ShiftRight(c.bc, 8), 255))

GetC(c) == ToUint8(BitAnd(c.bc, 255))

GetD(c) == ToUint8(BitAnd(ShiftRight(c.de, 8), 255))

GetE(c) == ToUint8(BitAnd(c.de, 255))

GetH(c) == ToUint8(BitAnd(ShiftRight(c.hl, 8), 255))

GetL(c) == ToUint8(BitAnd(c.hl, 255))

(***************************************************************************)
(* MEMORY_REGIONS: src/include/DebuggerTypes.h                             *)
(***************************************************************************)

Region(name, start, end) == [name |-> name, start |-> start, end |-> end]

\* A table whose HRAM entry ends one byte early: 0xFFFE is in no region.
MEMORY_REGIONS_GapBeforeIE ==
    << Region("ROM Bank 0",        0, 16383),
       Region("ROM Bank N",    16384, 32767),
       Region("VRAM",          32768, 40959),
       Region("External RAM",  40960, 49151),
       Region("WRAM Bank 0",   49152, 53247),
       Region("WRAM Bank N",   53248, 57343),
       Region("Echo RAM",      57344, 65023),
       Region("OAM",           65024, 65183),
       Region("Unusable",      65184, 65279),
       Region("I/O Registers", 65280, 65407),
       Region("HRAM",          65408, 65533),
       Region("IE Register",   65535, 65535) >>

\* The table of DebuggerTypes.h (colours left out).
MEMORY_REGIONS ==
    << Region("ROM Bank 0",        0, 16383),   \* 0x0000 - 0x3FFF
       Region("ROM Bank N",    16384, 32767),   \* 0x4000 - 0x7FFF
       Region("VRAM",          32768, 40959),   \* 0x8000 - 0x9FFF
       Region("External RAM",  40960, 49151),   \* 0xA000 - 0xBFFF
       Region("WRAM Bank 0",   49152, 53247),   \* 0xC000 - 0xCFFF
       Region("WRAM Bank N",   53248, 57343),   \* 0xD000 - 0xDFFF
       Region("Echo RAM",      57344, 65023),   \* 0xE000 - 0xFDFF
       Region("OAM",           65024, 65183),   \* 0xFE00 - 0xFE9F
       Region("Unusable",      65184, 65279),   \* 0xFEA0 - 0xFEFF
       Region("I/O Registers", 65280, 65407),   \* 0xFF00 - 0xFF7F
       Region("HRAM",          65408, 65534),   \* 0xFF80 - 0xFFFE
       Region("IE Register",   65535, 65535) >> \* 0xFFFF - 0xFFFF

\* sizeof(MEMORY_REGIONS) / sizeof(MEMORY_REGIONS[0])
MEMORY_REGIONS_COUNT == Len(MEMORY_REGIONS)

(***************************************************************************)
(* ControlPanel: src/src/panels/ControlPanel.cpp                           *)
(***************************************************************************)

SPEED_COUNT == 7

SPEED_1X_INDEX == 3

\* ControlPanel::ControlPanel
ControlPanel_New ==
    [visible_ |-> TRUE, running_ |-> FALSE, step_requested_ |-> FALSE,
     exit_requested_ |-> FALSE, speed_index_ |-> SPEED_1X_INDEX]

\* The table of GetSpeedMultiplier in eighths: 0.125f is 1, 1.0f is 8, 8.0f is 64.
multipliers == <<1, 2, 4, 8, 16, 32, 64>>

\* What a read outside the table may yield (in eighths).
StrayFloats == {0, 3, 64, 1000}

\* ControlPanel::GetSpeedMultiplier: the set of values the call may return.
\* The C++ array is indexed from 0, the sequence from 1.
ControlPanel_GetSpeedMultiplier(p) ==
    IF p.speed_index_ \in 0..(Len(multipliers) - 1)
    THEN {multipliers[p.speed_index_ + 1]}
    ELSE StrayFloats

\* CycleSpeedUp going round to the first entry from the last.
ControlPanel_CycleSpeedUp_Wraps(p) ==
    [p EXCEPT !.speed_index_ = (p.speed_index_ + 1) % SPEED_COUNT]

\* ControlPanel::CycleSpeedUp
ControlPanel_CycleSpeedUp(p) ==
    IF p.speed_index_ < SPEED_COUNT - 1
    THEN [p EXCEPT !.speed_index_ = p.speed_index_ + 1]
    ELSE p

\* ControlPanel::CycleSpeedDown
ControlPanel_CycleSpeedDown(p) ==
    IF p.speed_index_ > 0
    THEN [p EXCEPT !.speed_index_ = p.speed_index_ - 1]
    ELSE p

\* SetSpeedIndex without the test index >= 0.
ControlPanel_SetSpeedIndex_NoLowerBound(p, index) ==
    IF index < SPEED_COUNT THEN [p EXCEPT !.speed_index_ = index] ELSE p

\* SetSpeedIndex without the test index < SPEED_COUNT.
ControlPanel_SetSpeedIndex_NoUpperBound(p, index) ==
    IF index >= 0 THEN [p EXCEPT !.speed_index_ = index] ELSE p

\* ControlPanel::SetSpeedIndex
ControlPanel_SetSpeedIndex(p, index) ==
    IF index >= 0 /\ index < SPEED_COUNT
    THEN [p EXCEPT !.speed_index_ = index]
    ELSE p

\* ControlPanel::SetVisible, SetRunning, ToggleRunning, ClearStepRequest
ControlPanel_SetVisible(p, visible) == [p EXCEPT !.visible_ = visible]

\* SetRunning that refuses to start while an exit is requested.
ControlPanel_SetRunning_GuardedByExit(p, running) ==
    IF running /\ p.exit_requested_ THEN p ELSE [p EXCEPT !.running_ = running]

ControlPanel_SetRunning(p, running) == [p EXCEPT !.running_ = running]

\* ToggleRunning that drops a pending step request when it starts running.
ControlPanel_ToggleRunning_ClearsStep(p) ==
    [p EXCEPT !.running_ = ~p.running_,
              !.step_requested_ = IF ~p.running_ THEN FALSE ELSE @]

ControlPanel_ToggleRunning(p) == [p EXCEPT !.running_ = ~p.running_]

ControlPanel_ClearStepRequest(p) == [p EXCEPT !.step_requested_ = FALSE]

\* The speed index after the loop over the combo's Selectables, where
\* selected is the set of entries whose Selectable returned true: the loop
\* runs in ascending order and each assigns, so the largest one stays.
AfterSelectables(index, selected) ==
    IF selected = {} THEN index
    ELSE CHOOSE i \in selected : \A j \in selected : j <= i

\* Render whose Stop button leaves the panel running.
ControlPanel_Render_StopDoesNotStop(p, run_click, step_click, selected, exit_click) ==
    IF ~p.visible_ THEN p
    ELSE LET running == IF run_click THEN TRUE ELSE p.running_
         IN [visible_        |-> p.visible_,
             running_        |-> running,
             step_requested_ |-> IF step_click /\ ~running THEN TRUE
                                 ELSE p.step_requested_,
             exit_requested_ |-> IF exit_click THEN TRUE ELSE p.exit_requested_,
             speed_index_    |-> AfterSelectables(p.speed_index_, selected)]

\* Render whose Step button is disabled by running_ as it was before the
\* Run/Stop button.
ControlPanel_Render_StepBeforeRun(p, run_click, step_click, selected, exit_click) ==
    IF ~p.visible_ THEN p
    ELSE LET running == IF run_click THEN ~p.running_ ELSE p.running_
         IN [visible_        |-> p.visible_,
             running_        |-> running,
             step_requested_ |-> IF step_click /\ ~p.running_ THEN TRUE
                                 ELSE p.step_requested_,
             exit_requested_ |-> IF exit_click THEN TRUE ELSE p.exit_requested_,
             speed_index_    |-> AfterSelectables(p.speed_index_, selected)]

\* Render without the test of visible_.
ControlPanel_Render_NoVisibleCheck(p, run_click, step_click, selected, exit_click) ==
    LET running == IF run_click THEN ~p.running_ ELSE p.running_
    IN [visible_        |-> p.visible_,
        running_        |-> running,
        step_requested_ |-> IF step_click /\ ~running THEN TRUE
                            ELSE p.step_requested_,
        exit_requested_ |-> IF exit_click THEN TRUE ELSE p.exit_requested_,
        speed_index_    |-> AfterSelectables(p.speed_index_, selected)]

\* Render with exit_requested_ assigned the Exit button's result.
ControlPanel_Render_ExitFollowsButton(p, run_click, step_click, selected, exit_click) ==
    IF ~p.visible_ THEN p
    ELSE LET running == IF run_click THEN ~p.running_ ELSE p.running_
         IN [visible_        |-> p.visible_,
             running_        |-> running,
             step_requested_ |-> IF step_click /\ ~running THEN TRUE
                                 ELSE p.step_requested_,
             exit_requested_ |-> exit_click,
             speed_index_    |-> AfterSelectables(p.speed_index_, selected)]

\* Render with step_requested_ assigned the Step button's result.
ControlPanel_Render_StepFollowsButton(p, run_click, step_click, selected, exit_click) ==
    IF ~p.visible_ THEN p
    ELSE LET running == IF run_click THEN ~p.running_ ELSE p.running_
         IN [visible_        |-> p.visible_,
             running_        |-> running,
             step_requested_ |-> step_click /\ ~running,
             exit_requested_ |-> IF exit_click THEN TRUE ELSE p.exit_requested_,
             speed_index_    |-> AfterSelectables(p.speed_index_, selected)]

\* ControlPanel::Render.  run_click, step_click and exit_click say whether
\* the user clicks the Run/Stop, Step and Exit buttons in this frame, and
\* selected which combo entries report a selection (empty when the combo is
\* closed).  The Run/Stop button toggles running_; the Step button is drawn
\* after it and is disabled, so reports no click, when running_ is then true.
ControlPanel_Render(p, run_click, step_click, selected, exit_click) ==
    IF ~p.visible_ THEN p
    ELSE LET running == IF run_click THEN ~p.running_ ELSE p.running_
         IN [visible_        |-> p.visible_,
             running_        |-> running,
             step_requested_ |-> IF step_click /\ ~running THEN TRUE
                                 ELSE p.step_requested_,
             exit_requested_ |-> IF exit_click THEN TRUE ELSE p.exit_requested_,
             speed_index_    |-> AfterSelectables(p.speed_index_, selected)]

\* The ImGui calls of ControlPanel::Render, in order: none when the panel
\* is hidden.  running is running_ after the Run/Stop button; the calls made
\* inside an open combo are left out.
ControlPanel_RenderCalls(p, run_click) ==
    IF ~p.visible_ THEN <<>>
    ELSE LET running == IF run_click THEN ~p.running_ ELSE p.running_
         IN <<"ImGui::SetNextWindowPos", "ImGui::SetNextWindowSize",
              "ImGui::Begin(Controls)",
              IF p.running_ THEN "ImGui::Button(Stop (R))" ELSE "ImGui::Button(Run (R))">>
            \o (IF running THEN <<"ImGui::BeginDisabled">> ELSE <<>>)
            \o <<"ImGui::Button(Step (S))">>
            \o (IF running THEN <<"ImGui::EndDisabled">> ELSE <<>>)
            \o <<"ImGui::SetNextItemWidth", "ImGui::BeginCombo(Speed)",
                 "ImGui::SameLine", "ImGui::TextDisabled",
                 "ImGui::Button(Exit (ESC))", "ImGui::End">>

(***************************************************************************)
(* CPUStatePanel, FlagsPanel, MemoryViewerPanel: src/include/panels/*.h    *)
(*                                                                         *)
(* The headers declare the three classes and define GetName, IsVisible and *)
(* SetVisible; the constructors, Update and Render are defined in files    *)
(* that are not part of this source tree and follow the specification's    *)
(* sections 3 (Panel, Address-Space Snapshot) and 4.3 (Panel lifecycle).   *)
(***************************************************************************)

\* GetName of the three classes.
DataPanelKinds == {"CPU State", "CPU Flags", "Memory Viewer"}

\* "All panels start visible"; the private copy of the snapshot starts as
\* the snapshot type constructs it.
DataPanel_New(kind) ==
    [kind     |-> kind,
     visible_ |-> TRUE,
     state_   |-> IF kind = "Memory Viewer"
                  THEN [buffer |-> ZeroImage, is_valid |-> FALSE]
                  ELSE ZeroCPU]

\* SetVisible of the three classes.
DataPanel_SetVisible(p, visible) == [p EXCEPT !.visible_ = visible]

\* Render: "SetVisible(false) suppresses Render() output entirely (early
\* return, no side effects, no state mutation)"; a visible panel draws its
\* window.  The fields after the call and the ImGui calls made, in order.
DataPanel_Render(p) ==
    IF ~p.visible_ THEN [p |-> p, calls |-> <<>>]
    ELSE [p |-> p, calls |-> <<"ImGui::Begin(" \o p.kind \o ")", "ImGui::End">>]

\* Update that refreshes the copy only while the panel is visible.
DataPanel_UpdateCPU_OnlyWhenVisible(p, c) ==
    IF p.visible_ THEN [p EXCEPT !.state_ = c] ELSE p

\* CPUStatePanel::Update, FlagsPanel::Update: "refreshed by its own Update
\* call", "accepted and applied regardless of visibility".
DataPanel_UpdateCPU(p, c) == [p EXCEPT !.state_ = c]

\* MemoryViewerPanel::Update: the size-checked full copy of the
\* Address-Space Snapshot ("size must be 65536", "return true if
\* successful"); the new fields and the value returned.
DataPanel_UpdateMemory(p, buffer, size) ==
    IF buffer = NULL \/ size # MEMORY_SIZE THEN [p |-> p, ret |-> "false"]
    ELSE [p   |-> [p EXCEPT !.state_ =
                      [buffer   |-> MemCopy(p.state_.buffer, Deref(buffer), size),
                       is_valid |-> TRUE]],
          ret |-> "true"]

(***************************************************************************)
(* State                                                                   *)
(***************************************************************************)

VARIABLES
    dbg,            \* the GBDebugger object's fields
    dbg_env,        \* the library state the GBDebugger object owns
    dbg_alive,      \* the GBDebugger object has not been destroyed
    backend,        \* the DebuggerBackend object's fields
    backend_env,    \* the library state the DebuggerBackend object owns
    backend_alive,  \* the DebuggerBackend object has not been destroyed
    call,           \* the last call: object, method, arguments, result, external calls
    mem_accepted,   \* history: some UpdateMemory call has returned success
    probe,          \* a value under examination: its input and what was computed from it
    panel,          \* the ControlPanel object's fields
    panel_call,     \* history: the last call made on the panel and the state it found
    viewer,         \* the position of the memory viewer's row loop and what it has drawn
    data_panel,     \* the fields of a CPUStatePanel, FlagsPanel or MemoryViewerPanel object
    data_call       \* history: the last call made on that panel and the state it found

vars == <<dbg, dbg_env, dbg_alive, backend, backend_env, backend_alive, call,
          mem_accepted, probe, panel, panel_call, viewer, data_panel, data_call>>

\* The snapshot-holding panel object and its history.
data_vars == <<data_panel, data_call>>

\* The variables of the objects: everything but the value under examination.
object_vars == <<dbg, dbg_env, dbg_alive, backend, backend_env, backend_alive, call,
                 mem_accepted, panel, panel_call, viewer, data_panel, data_call>>

\* What the GBDebugger and DebuggerBackend calls leave alone.
rest_vars == <<probe, panel, panel_call, viewer, data_panel, data_call>>

\* What the ControlPanel calls leave alone.
non_panel_vars == <<dbg, dbg_env, dbg_alive, backend, backend_env, backend_alive,
                    call, mem_accepted, probe, viewer, data_panel, data_call>>

\* What the memory viewer's loop leaves alone.
non_viewer_vars == <<dbg, dbg_env, dbg_alive, backend, backend_env, backend_alive,
                     call, mem_accepted, probe, panel, panel_call, data_panel,
                     data_call>>

\* What the calls on a snapshot-holding panel leave alone.
non_data_vars == <<dbg, dbg_env, dbg_alive, backend, backend_env, backend_alive,
                   call, mem_accepted, probe, panel, panel_call, viewer>>

dbg_vars == <<dbg, dbg_env, dbg_alive>>

backend_vars == <<backend, backend_env, backend_alive>>

NoArgs == [buffer |-> NULL, size |-> 0, cpu |-> ZeroCPU, event |-> NoEvent]

Call(obj, op, args, ret, calls) ==
    [obj |-> obj, op |-> op, args |-> args, ret |-> ret, calls |-> calls]

\* Nothing is under examination.
NoProbe == [stage |-> "idle"]

NoPanelArgs ==
    [index |-> 0, flag |-> FALSE, run_click |-> FALSE, step_click |-> FALSE,
     selected |-> {}, exit_click |-> FALSE]

\* A call on the panel: pre is the panel as the call found it, ret what
\* GetSpeedMultiplier returned (0 for the others), run the number of
\* consecutive calls of the same Cycle operation ending with this one,
\* run_from the speed index before the first of them and calls the ImGui
\* calls made (none outside Render).
PanelCall(op, args, pre, ret, run, run_from) ==
    [op |-> op, args |-> args, pre |-> pre, ret |-> ret, run |-> run,
     run_from |-> run_from, calls |-> <<>>]

NoPanelCall == PanelCall("none", NoPanelArgs, ControlPanel_New, 0, 0, 0)

\* No row drawn.
NoRow == [addr |-> 0, header |-> 0, bytes |-> <<>>, ascii |-> <<>>]

\* The memory viewer is not drawing.  pc is the position in
\* RenderMemoryViewer, addr the loop variable, rows the number of rows drawn,
\* headers the region headers drawn so far (table index and the row before
\* which it was drawn), row the last row drawn, placeholder whether the "No
\* memory data available" text was drawn and reads the number of calls of
\* memory_state_.Read.
NoViewer ==
    [pc |-> "idle", addr |-> 0, rows |-> 0, headers |-> <<>>, row |-> NoRow,
     placeholder |-> FALSE, reads |-> 0]

\* A call on a snapshot-holding panel: pre is the panel as the call found
\* it, ret what Update returned ("void" for the others), calls the ImGui
\* calls made, held the argument of the last Update that took effect and
\* held_hidden whether the panel was hidden during that Update.
DataCall(op, args, pre, ret, calls, held, held_hidden) ==
    [op |-> op, args |-> args, pre |-> pre, ret |-> ret, calls |-> calls,
     held |-> held, held_hidden |-> held_hidden]

NoDataArgs == [flag |-> FALSE, cpu |-> ZeroCPU, buffer |-> NULL, size |-> 0]

NoDataCall(p) == DataCall("none", NoDataArgs, p, "void", <<>>, NoDataArgs, FALSE)

\* The objects as constructed, no call made yet.
ObjectsInit ==
    /\ data_panel = DataPanel_New("CPU State")
    /\ data_call = NoDataCall(data_panel)
    /\ panel = ControlPanel_New
    /\ panel_call = NoPanelCall
    /\ viewer = NoViewer
    /\ dbg = GBDebugger_New
    /\ dbg_env = NoResources
    /\ dbg_alive = TRUE
    /\ backend = DebuggerBackend_New
    /\ backend_env = NoResources
    /\ backend_alive = TRUE
    /\ call = Call("none", "none", NoArgs, "void", <<>>)
    /\ mem_accepted = FALSE

Init ==
    /\ ObjectsInit
    /\ probe = NoProbe

\* A library call may acquire one more resource of each kind.
Room(e) == e.imgui < MaxLive /\ e.window < MaxLive /\ e.gl < MaxLive /\ e.impl < MaxLive

\* A GBDebugger method with outcome o was called.
DbgStep(op, args, o) ==
    /\ dbg' = o.d
    /\ dbg_env' = o.e
    /\ call' = Call("GBDebugger", op, args, o.ret, o.calls)
    /\ UNCHANGED <<dbg_alive, backend_vars, mem_accepted, rest_vars>>

\* A DebuggerBackend method with outcome o was called.
BackendStep(op, args, o) ==
    /\ backend' = o.d
    /\ backend_env' = o.e
    /\ call' = Call("DebuggerBackend", op, args, o.ret, o.calls)
    /\ UNCHANGED <<backend_alive, dbg_vars, mem_accepted, rest_vars>>

(***************************************************************************)
(* Actions: one per public method                                          *)
(***************************************************************************)

Open ==
    /\ dbg_alive /\ Room(dbg_env)
    /\ \E ctxOk \in BOOLEAN :
          DbgStep("Open", NoArgs, GBDebugger_Open(dbg, dbg_env, ctxOk))

Close ==
    /\ dbg_alive
    /\ DbgStep("Close", NoArgs, GBDebugger_Close(dbg, dbg_env))

InitSDL ==
    /\ dbg_alive /\ Room(dbg_env)
    /\ \E ctxOk, winOk, glOk \in BOOLEAN :
          DbgStep("InitSDL", NoArgs, GBDebugger_InitSDL(dbg, dbg_env, ctxOk, winOk, glOk))

ProcessSDLEvent ==
    /\ dbg_alive
    /\ \E ev \in Events :
          DbgStep("ProcessSDLEvent", [NoArgs EXCEPT !.event = ev],
                  GBDebugger_ProcessSDLEvent(dbg, dbg_env, ev))

BeginFrame ==
    /\ dbg_alive
    /\ DbgStep("BeginFrame", NoArgs, GBDebugger_BeginFrame(dbg, dbg_env))

EndFrame ==
    /\ dbg_alive
    /\ DbgStep("EndFrame", NoArgs, GBDebugger_EndFrame(dbg, dbg_env))

UpdateCPU ==
    /\ dbg_alive
    /\ \E c \in CPUInputs :
          DbgStep("UpdateCPU", [NoArgs EXCEPT !.cpu = c],
                  Outcome(GBDebugger_UpdateCPU(dbg, c), dbg_env, "void", <<>>))

UpdateMemory ==
    /\ dbg_alive
    /\ \E buffer \in BufferPtrs, size \in Sizes :
          LET r == GBDebugger_UpdateMemory(dbg, buffer, size)
          IN  /\ dbg' = r.d
              /\ call' = Call("GBDebugger", "UpdateMemory",
                              [NoArgs EXCEPT !.buffer = buffer, !.size = size],
                              r.ret, IF r.ret = "true" THEN <<"memcpy">> ELSE <<>>)
              /\ mem_accepted' = (mem_accepted \/ r.ret = "true")
              /\ UNCHANGED <<dbg_env, dbg_alive, backend_vars, rest_vars>>

Render ==
    /\ dbg_alive
    /\ DbgStep("Render", NoArgs, GBDebugger_Render(dbg, dbg_env))

\* GBDebugger::~GBDebugger calls Close.
Destroy ==
    /\ dbg_alive
    /\ LET o == GBDebugger_Close(dbg, dbg_env)
       IN  /\ dbg' = o.d
           /\ dbg_env' = o.e
           /\ dbg_alive' = FALSE
           /\ call' = Call("GBDebugger", "~GBDebugger", NoArgs, "void", o.calls)
           /\ UNCHANGED <<backend_vars, mem_accepted, rest_vars>>

Initialize ==
    /\ backend_alive /\ Room(backend_env)
    /\ \E ctxOk, winOk, glOk \in BOOLEAN :
          BackendStep("Initialize", NoArgs,
                      DebuggerBackend_Initialize(backend, backend_env, ctxOk, winOk, glOk))

Shutdown ==
    /\ backend_alive
    /\ BackendStep("Shutdown", NoArgs, DebuggerBackend_Shutdown(backend, backend_env))

ProcessEvent ==
    /\ backend_alive
    /\ \E ev \in Events :
          BackendStep("ProcessEvent", [NoArgs EXCEPT !.event = ev],
                      DebuggerBackend_ProcessEvent(backend, backend_env, ev))

Backend_BeginFrame ==
    /\ backend_alive
    /\ BackendStep("BeginFrame", NoArgs, DebuggerBackend_BeginFrame(backend, backend_env))

Backend_EndFrame ==
    /\ backend_alive
    /\ BackendStep("EndFrame", NoArgs, DebuggerBackend_EndFrame(backend, backend_env))

\* DebuggerBackend::~DebuggerBackend calls Shutdown.
Backend_Destroy ==
    /\ backend_alive
    /\ LET o == DebuggerBackend_Shutdown(backend, backend_env)
       IN  /\ backend' = o.d
           /\ backend_env' = o.e
           /\ backend_alive' = FALSE
           /\ call' = Call("DebuggerBackend", "~DebuggerBackend", NoArgs, "void", o.calls)
           /\ UNCHANGED <<dbg_vars, mem_accepted, rest_vars>>

Next ==
    \/ Open
    \/ Close
    \/ InitSDL
    \/ ProcessSDLEvent
    \/ BeginFrame
    \/ EndFrame
    \/ UpdateCPU
    \/ UpdateMemory
    \/ Render
    \/ Destroy
    \/ Initialize
    \/ Shutdown
    \/ ProcessEvent
    \/ Backend_BeginFrame
    \/ Backend_EndFrame
    \/ Backend_Destroy

Spec == Init /\ [][Next]_vars

(***************************************************************************)
(* Observations used by the properties                                     *)
(***************************************************************************)

\* The last call was GBDebugger::<op>.
DbgCalled(c, op) == c.obj = "GBDebugger" /\ c.op = op

\* The last call was DebuggerBackend::<op>.
BackendCalled(c, op) == c.obj = "DebuggerBackend" /\ c.op = op

\* The arguments of an UpdateMemory call pass its validation.
AcceptableUpdate(args) == args.buffer # NULL /\ args.size = MEMORY_SIZE

\* A stored image is a 65536-byte array in the canonical representation.
IsImage(m) == DOMAIN m \subseteq Addresses /\ \A a \in DOMAIN m : m[a] \in 1 .. 255

(***************************************************************************)
(* C1 .. C3: the address-space snapshot                                    *)
(***************************************************************************)

\* C1: an UpdateMemory call with a null buffer, or with a size other than
\* 65536, returns failure and leaves the stored snapshot, every byte of it and
\* its validity flag, exactly as it was before the call, whatever that was.
C1_RejectedUpdateChangesNothing ==
    [][ (DbgCalled(call', "UpdateMemory") /\ ~AcceptableUpdate(call'.args))
          => /\ call'.ret = "false"
             /\ dbg'.memory_state_.is_valid = dbg.memory_state_.is_valid
             /\ SameBytes(dbg'.memory_state_.buffer, dbg.memory_state_.buffer)
             /\ dbg'.memory_state_ = dbg.memory_state_ ]_vars

\* C1 witness: a null buffer of the right size has been rejected while the
\* snapshot was valid and held 0xAB at 0x1234.
C1_Witness ==
    /\ DbgCalled(call, "UpdateMemory")
    /\ call.args.buffer = NULL /\ call.args.size = 65536
    /\ call.ret = "false"
    /\ dbg.memory_state_.is_valid
    /\ Read(dbg.memory_state_.buffer, 4660) = 171

\* C2: an UpdateMemory call with a present buffer and size 65536 returns
\* success, sets the validity flag, and afterwards every address 0..65535 reads
\* back the input buffer's byte at that address.
C2_AcceptedUpdateCopiesInput ==
    (DbgCalled(call, "UpdateMemory") /\ AcceptableUpdate(call.args))
      => /\ call.ret = "true"
         /\ dbg.memory_state_.is_valid
         /\ IsImage(dbg.memory_state_.buffer)
         /\ SameBytes(dbg.memory_state_.buffer, Deref(call.args.buffer))
         /\ \A a \in {0, 4659, 4660, 4661, 65534, 65535} :
               Read(dbg.memory_state_.buffer, a) = Read(Deref(call.args.buffer), a)

\* C2 witness: the buffer with 0xAB at 0x1234 and zero elsewhere has been
\* accepted; 0x1234 reads 0xAB and the addresses the other buffer sets read 0.
C2_Witness ==
    /\ DbgCalled(call, "UpdateMemory")
    /\ call.args.buffer = "buf_ab" /\ call.args.size = 65536
    /\ call.ret = "true"
    /\ Read(dbg.memory_state_.buffer, 4660) = 171
    /\ Read(dbg.memory_state_.buffer, 0) = 0
    /\ Read(dbg.memory_state_.buffer, 65535) = 0

\* C3: the snapshot starts invalid and all zero; it is valid exactly when some
\* earlier UpdateMemory call returned success; while invalid every byte is
\* zero; and no step turns a valid snapshot back to invalid.
C3_ValidIffAccepted ==
    /\ [](dbg.memory_state_.is_valid <=> mem_accepted)
    /\ [](~dbg.memory_state_.is_valid => SameBytes(dbg.memory_state_.buffer, ZeroImage))
    /\ [][dbg.memory_state_.is_valid => dbg'.memory_state_.is_valid]_vars

\* C3 witness: a valid snapshot has survived a Close that released the
\* context.
C3_Witness ==
    /\ DbgCalled(call, "Close")
    /\ call.calls # <<>>
    /\ dbg.memory_state_.is_valid
    /\ mem_accepted

(***************************************************************************)
(* C4, C5: the snapshots and the rendering lifecycle                       *)
(***************************************************************************)

\* What an UpdateMemory call with arguments args makes of snapshot m.
ExpectedMemory(m, args) ==
    IF AcceptableUpdate(args)
    THEN [buffer |-> Deref(args.buffer), is_valid |-> TRUE]
    ELSE m

\* C4: UpdateCPU and UpdateMemory have the same effect and result whether the
\* Coordinator is closed or open: the effect is fixed by the arguments and the
\* stored snapshot alone and touches nothing of the lifecycle; and Open, Close
\* and Render leave both stored snapshots as they were.
C4_UpdatesIgnoreLifecycle ==
    [][ /\ DbgCalled(call', "UpdateCPU")
             => /\ dbg' = [dbg EXCEPT !.cpu_state_ = call'.args.cpu]
                /\ dbg_env' = dbg_env
                /\ call'.ret = "void"
        /\ DbgCalled(call', "UpdateMemory")
             => /\ dbg' = [dbg EXCEPT !.memory_state_ =
                                         ExpectedMemory(dbg.memory_state_, call'.args)]
                /\ dbg_env' = dbg_env
                /\ call'.ret = (IF AcceptableUpdate(call'.args) THEN "true" ELSE "false")
        /\ (DbgCalled(call', "Open") \/ DbgCalled(call', "Close") \/ DbgCalled(call', "Render"))
             => /\ dbg'.cpu_state_ = dbg.cpu_state_
                /\ dbg'.memory_state_ = dbg.memory_state_ ]_vars

\* C4 witness: an Open that created the context finds a CPU snapshot and a
\* valid memory snapshot already stored.
C4_Witness ==
    /\ DbgCalled(call, "Open")
    /\ call.ret = "true" /\ call.calls # <<>>
    /\ dbg.is_open_
    /\ dbg.cpu_state_ \in CPUInputs
    /\ dbg.memory_state_.is_valid
    /\ Read(dbg.memory_state_.buffer, 4660) = 171

\* C5: after UpdateCPU the stored CPU snapshot equals exactly the eight
\* arguments, whatever it held before, and the memory snapshot and its validity
\* are unchanged.
C5_UpdateCPUReplacesSnapshot ==
    [][ DbgCalled(call', "UpdateCPU")
          => /\ dbg'.cpu_state_ = call'.args.cpu
             /\ \A f \in {"cycle", "pc", "sp", "af", "bc", "de", "hl", "ime"} :
                   dbg'.cpu_state_[f] = call'.args.cpu[f]
             /\ DOMAIN dbg'.cpu_state_ = {"cycle", "pc", "sp", "af", "bc", "de", "hl", "ime"}
             /\ dbg'.memory_state_ = dbg.memory_state_ ]_vars

\* C5 witness: UpdateCPU has stored the second argument tuple, which differs
\* from the constructor's and from the first tuple's values in every register,
\* beside a valid memory snapshot.
C5_Witness ==
    /\ DbgCalled(call, "UpdateCPU")
    /\ dbg.cpu_state_.pc = 336 /\ dbg.cpu_state_.hl = 333 /\ ~dbg.cpu_state_.ime
    /\ dbg.memory_state_.is_valid

(***************************************************************************)
(* C6 .. C9: opening, closing and rendering                                *)
(***************************************************************************)

\* The resources e holds.
Held(e) == <<e.imgui, e.window, e.gl, e.impl>>

HoldsNothing(e) == Held(e) = <<0, 0, 0, 0>>

\* C6: Open called on an open Coordinator, and Initialize called on an
\* initialized backend, return success, issue no library call (so acquire and
\* re-initialize nothing) and change no state.
C6_OpenIdempotent ==
    [][ /\ (DbgCalled(call', "Open") /\ dbg.is_open_)
             => /\ call'.ret = "true"
                /\ call'.calls = <<>>
                /\ UNCHANGED <<dbg, dbg_env>>
        /\ (BackendCalled(call', "Initialize") /\ backend.initialized_)
             => /\ call'.ret = "true"
                /\ call'.calls = <<>>
                /\ UNCHANGED <<backend, backend_env>> ]_vars

\* C6 witness: Open has returned success without any library call, which it
\* does only when the Coordinator was already open.
C6_Witness ==
    /\ DbgCalled(call, "Open")
    /\ call.ret = "true" /\ call.calls = <<>>
    /\ dbg.is_open_ /\ dbg_env.imgui = 1

\* C7: Close on a closed Coordinator is a no-op; no resource is ever released
\* that is not held (none is released twice); each handle is held exactly while
\* the object records it; and a closed or destroyed Coordinator, and an
\* uninitialized or destroyed backend, hold nothing.
C7_ReleasedExactlyOnce ==
    /\ [](~dbg_env.bad_release /\ ~backend_env.bad_release)
    /\ [](/\ dbg_env.imgui = (IF dbg.is_open_ THEN 1 ELSE 0)
          /\ dbg_env.window = (IF dbg.sdl_window_ # NULL THEN 1 ELSE 0)
          /\ dbg_env.gl = (IF dbg.gl_context_ # NULL THEN 1 ELSE 0)
          /\ dbg_env.impl = (IF dbg.sdl_initialized_ THEN 1 ELSE 0))
    /\ [](/\ backend_env.imgui = (IF backend.initialized_ THEN 1 ELSE 0)
          /\ backend_env.window = (IF backend.window_ # NULL THEN 1 ELSE 0)
          /\ backend_env.gl = (IF backend.gl_context_ # NULL THEN 1 ELSE 0)
          /\ backend_env.impl = (IF backend.initialized_ THEN 1 ELSE 0))
    /\ []((~dbg.is_open_ \/ ~dbg_alive) => HoldsNothing(dbg_env))
    /\ []((~backend.initialized_ \/ ~backend_alive) => HoldsNothing(backend_env))
    /\ [][ (DbgCalled(call', "Close") /\ ~dbg.is_open_)
             => (call'.calls = <<>> /\ UNCHANGED <<dbg, dbg_env>>) ]_vars

\* C7 witness: the destructor ran on a Coordinator with the SDL backend up,
\* destroyed the window and the contexts, and nothing is held any more.
C7_Witness ==
    /\ DbgCalled(call, "~GBDebugger")
    /\ \E i \in DOMAIN call.calls : call.calls[i] = "SDL_DestroyWindow"
    /\ \E i \in DOMAIN call.calls : call.calls[i] = "ImGui::DestroyContext"
    /\ ~dbg_alive
    /\ HoldsNothing(dbg_env) /\ ~dbg_env.bad_release

\* C8 (as claimed): when an opening call made on a closed Coordinator, or an
\* Initialize made on an uninitialized backend, returns failure, the object is
\* left closed with null handles and holds no window, GL context or ImGui
\* context.
C8_FailedInitLeavesClosed ==
    [][ /\ ((DbgCalled(call', "Open") \/ DbgCalled(call', "InitSDL"))
              /\ ~dbg.is_open_ /\ call'.ret = "false")
             => /\ ~dbg'.is_open_
                /\ dbg'.sdl_window_ = NULL /\ dbg'.gl_context_ = NULL
                /\ HoldsNothing(dbg_env')
        /\ (BackendCalled(call', "Initialize") /\ ~backend.initialized_ /\ call'.ret = "false")
             => /\ ~backend'.initialized_
                /\ backend'.window_ = NULL /\ backend'.gl_context_ = NULL
                /\ HoldsNothing(backend_env') ]_vars

\* C9: Render called while the Coordinator is not open issues no library call,
\* returns normally and changes no state of the Coordinator.
C9_RenderClosedIsNoop ==
    [][ (DbgCalled(call', "Render") /\ ~dbg.is_open_)
          => /\ call'.calls = <<>>
             /\ call'.ret = "void"
             /\ UNCHANGED <<dbg, dbg_env, dbg_alive, mem_accepted>> ]_vars

\* C9 witness: Render has been called on a closed Coordinator that holds a
\* valid snapshot.
C9_Witness ==
    /\ DbgCalled(call, "Render")
    /\ ~dbg.is_open_ /\ dbg_alive
    /\ call.calls = <<>>
    /\ dbg.memory_state_.is_valid

\* The windows a call began, in order.
PanelsBegun(calls) ==
    SelectSeq(calls, LAMBDA c : c \in {"ImGui::Begin(CPU State)", "ImGui::Begin(CPU Flags)",
                                        "ImGui::Begin(Memory Viewer)",
                                        "ImGui::Begin(Controls)"})

\* C10 (as claimed): every Render of an open Coordinator draws the four panels,
\* once each, in the order CPU State, Flags, Memory Viewer, Control.
C10_RenderDrawsFourPanels ==
    (DbgCalled(call, "Render") /\ dbg.is_open_)
      => PanelsBegun(call.calls) =
            <<"ImGui::Begin(CPU State)", "ImGui::Begin(CPU Flags)",
              "ImGui::Begin(Memory Viewer)", "ImGui::Begin(Controls)">>

(***************************************************************************)
(* C11: the order of backend calls                                         *)
(***************************************************************************)

\* The last call was one of the per-frame calls of the backend.
BackendFrameCall(c) ==
    BackendCalled(c, "ProcessEvent") \/ BackendCalled(c, "BeginFrame")
      \/ BackendCalled(c, "EndFrame")

\* The last call was one of the per-frame calls of the Coordinator.
DbgFrameCall(c) ==
    DbgCalled(c, "ProcessSDLEvent") \/ DbgCalled(c, "BeginFrame") \/ DbgCalled(c, "EndFrame")

\* ProcessEvent, BeginFrame and EndFrame called while the backend (for the
\* Coordinator: its SDL backend) is not initialized, that is before a
\* successful Initialize or after Shutdown, issue no library call and change
\* nothing; and a frame is in progress only while it is initialized.
FrameCallsNeedInit ==
    /\ [][ (BackendFrameCall(call') /\ ~backend.initialized_)
             => (call'.calls = <<>> /\ UNCHANGED <<backend, backend_env>>) ]_vars
    /\ [][ (DbgFrameCall(call') /\ ~dbg.sdl_initialized_)
             => (call'.calls = <<>> /\ UNCHANGED <<dbg, dbg_env>>) ]_vars
    /\ [](backend_env.in_frame => backend.initialized_)
    /\ [](dbg_env.in_frame => dbg.sdl_initialized_)

\* C11 (as claimed): the per-frame calls take effect only while initialized,
\* and within the initialized period every EndFrame that takes effect is
\* preceded by a matching BeginFrame: a frame is in progress when it is called.
C11_BackendCallOrder ==
    /\ FrameCallsNeedInit
    /\ [][ (BackendCalled(call', "EndFrame") /\ backend.initialized_)
             => backend_env.in_frame ]_vars
    /\ [][ (DbgCalled(call', "EndFrame") /\ dbg.sdl_initialized_)
             => dbg_env.in_frame ]_vars

\* C11 (amended): the per-frame calls take effect only while initialized; while
\* initialized each of them takes effect whenever it is called, whether or not
\* a frame is in progress: BeginFrame begins a frame, EndFrame ends one (and
\* renders and swaps), ProcessEvent forwards the event.
C11_FrameCallsGuardedByInit ==
    /\ FrameCallsNeedInit
    /\ [][ (BackendCalled(call', "BeginFrame") /\ backend.initialized_)
             => (call'.calls # <<>> /\ backend_env'.in_frame) ]_vars
    /\ [][ (BackendCalled(call', "EndFrame") /\ backend.initialized_)
             => (call'.calls # <<>> /\ ~backend_env'.in_frame) ]_vars
    /\ [][ (BackendCalled(call', "ProcessEvent") /\ backend.initialized_
              /\ call'.args.event.present)
             => call'.calls = <<"ImGui_ImplSDL2_ProcessEvent">> ]_vars

\* C11 witness: EndFrame has rendered and swapped on an initialized backend.
C11_Witness ==
    /\ BackendCalled(call, "EndFrame")
    /\ backend.initialized_
    /\ call.calls # <<>>
    /\ ~backend_env.in_frame

(***************************************************************************)
(* The region table, address by address                                    *)
(***************************************************************************)

\* The entries of the table whose [start, end] range holds address a.
RegionsContaining(a) ==
    {i \in 1..MEMORY_REGIONS_COUNT :
        MEMORY_REGIONS[i].start <= a /\ a <= MEMORY_REGIONS[i].end}

\* Any uint16_t address may be looked up.
RegionsInit ==
    /\ ObjectsInit
    /\ probe \in {[stage |-> "address", addr |-> a, regions |-> {}] : a \in Addresses}

\* The address is matched against every entry of the table.
LookUpRegion ==
    /\ probe.stage = "address"
    /\ probe' = [probe EXCEPT !.stage = "looked_up",
                              !.regions = RegionsContaining(probe.addr)]
    /\ UNCHANGED object_vars

RegionsNext == LookUpRegion

SpecRegions == RegionsInit /\ [][RegionsNext]_vars

\* C12: the table has exactly 12 entries, sorted by ascending start, each
\* with start <= end, the first starting at 0x0000, the last ending at
\* 0xFFFF and every entry starting one past the end of the one before it;
\* so every address looked up lies in exactly one entry.
C12_RegionTablePartitions ==
    /\ Len(MEMORY_REGIONS) = 12
    /\ MEMORY_REGIONS_COUNT = 12
    /\ \A i \in 1..Len(MEMORY_REGIONS) :
          MEMORY_REGIONS[i].start <= MEMORY_REGIONS[i].end
    /\ \A i \in 1..(Len(MEMORY_REGIONS) - 1) :
          /\ MEMORY_REGIONS[i].start < MEMORY_REGIONS[i + 1].start
          /\ MEMORY_REGIONS[i].end + 1 = MEMORY_REGIONS[i + 1].start
    /\ MEMORY_REGIONS[1].start = 0
    /\ MEMORY_REGIONS[Len(MEMORY_REGIONS)].end = 65535
    /\ probe.stage = "looked_up" => Cardinality(probe.regions) = 1

\* The last address has been looked up and lies in the last entry only.
C12_Witness ==
    /\ probe.stage = "looked_up"
    /\ probe.addr = 65535
    /\ probe.regions = {12}

(***************************************************************************)
(* CPUState accessors, value by value                                      *)
(***************************************************************************)

Pairs == {"af", "bc", "de", "hl"}

\* The snapshot whose register pairs are varied one at a time.
BaseCPU == CHOOSE c \in CPUInputs : c.ime

NoDecode ==
    [zf |-> FALSE, nf |-> FALSE, hf |-> FALSE, cf |-> FALSE,
     a |-> 0, f |-> 0, b |-> 0, c |-> 0, d |-> 0, e |-> 0, h |-> 0, l |-> 0]

\* One register pair takes any uint16_t value; the others keep the base value.
CPUStateInit ==
    /\ ObjectsInit
    /\ probe \in {[stage |-> "cpu", pair |-> r, cpu |-> [BaseCPU EXCEPT ![r] = v],
                    out |-> NoDecode] : r \in Pairs, v \in 0..65535}

\* Every accessor of the snapshot is called.
Decode ==
    /\ probe.stage = "cpu"
    /\ LET c == probe.cpu
       IN probe' = [probe EXCEPT
              !.stage = "decoded",
              !.out = [zf |-> GetZFlag(c), nf |-> GetNFlag(c),
                       hf |-> GetHFlag(c), cf |-> GetCFlag(c),
                       a |-> GetA(c), f |-> GetF(c), b |-> GetB(c), c |-> GetC(c),
                       d |-> GetD(c), e |-> GetE(c), h |-> GetH(c), l |-> GetL(c)]]
    /\ UNCHANGED object_vars

CPUStateNext == Decode

SpecCPUState == CPUStateInit /\ [][CPUStateNext]_vars

\* Bit k of a natural, by arithmetic.
BitSet(x, k) == (x \div (2 ^ k)) % 2 = 1

\* The snapshot with A and bits 0-3 of F cleared, bits 4-7 of F kept.
FlagBitsOnly(c) == [c EXCEPT !.af = ((c.af % 256) \div 16) * 16]

\* C13: for every 16-bit AF, the Z, N, H and C flag accessors return bits
\* 7, 6, 5 and 4 of af & 0xFF, and return what they return for the AF that
\* has the same bits 4-7 and zero elsewhere: AF values that differ only in
\* bits 0-3 of the flag byte or in the high byte A give the same flags.
C13_FlagsAreBits7To4 ==
    probe.stage = "decoded" =>
        LET c == probe.cpu
            fb == c.af % 256
        IN /\ probe.out.zf = BitSet(fb, 7)
           /\ probe.out.nf = BitSet(fb, 6)
           /\ probe.out.hf = BitSet(fb, 5)
           /\ probe.out.cf = BitSet(fb, 4)
           /\ LET c2 == FlagBitsOnly(c)
              IN /\ GetZFlag(c2) = probe.out.zf
                 /\ GetNFlag(c2) = probe.out.nf
                 /\ GetHFlag(c2) = probe.out.hf
                 /\ GetCFlag(c2) = probe.out.cf

\* AF = 0x5A5F has been decoded: N and C set, Z and H clear, low bits all set.
C13_Witness ==
    /\ probe.stage = "decoded"
    /\ probe.pair = "af"
    /\ probe.cpu.af = 23135
    /\ ~probe.out.zf /\ probe.out.nf /\ ~probe.out.hf /\ probe.out.cf

\* The high and low sub-register read from the decoded snapshot for pair r.
HighOf(r, out) ==
    CASE r = "af" -> out.a [] r = "bc" -> out.b [] r = "de" -> out.d [] r = "hl" -> out.h

LowOf(r, out) ==
    CASE r = "af" -> out.f [] r = "bc" -> out.c [] r = "de" -> out.e [] r = "hl" -> out.l

\* C14: for every 16-bit value of each of AF, BC, DE and HL, the high and
\* low sub-register accessors return values in 0..255 with
\* high * 256 + low = pair, and the sub-registers of the pairs that were
\* not changed are those of the unchanged snapshot.
C14_SubRegistersSplitPair ==
    probe.stage = "decoded" =>
        /\ \A r \in Pairs :
              /\ HighOf(r, probe.out) \in 0..255
              /\ LowOf(r, probe.out) \in 0..255
              /\ HighOf(r, probe.out) * 256 + LowOf(r, probe.out) = probe.cpu[r]
        /\ \A r \in Pairs \ {probe.pair} :
              /\ HighOf(r, probe.out) = BaseCPU[r] \div 256
              /\ LowOf(r, probe.out) = BaseCPU[r] % 256

\* BC = 0xBEEF has been decoded into B = 0xBE and C = 0xEF, the other pairs
\* keeping the base value.
C14_Witness ==
    /\ probe.stage = "decoded"
    /\ probe.pair = "bc"
    /\ probe.cpu.bc = 48879
    /\ probe.cpu.bc # BaseCPU.bc
    /\ probe.out.b = 190
    /\ probe.out.c = 239

(***************************************************************************)
(* The ControlPanel under every sequence of calls                          *)
(***************************************************************************)

\* The longest run of one Cycle operation that is counted exactly.
MaxRun == 8

\* Arguments given to SetSpeedIndex: the valid indices, their neighbours
\* and the ends of int.
SpeedIndexInputs == {-2147483647 - 1, -1} \cup (0..(SPEED_COUNT + 1)) \cup {2147483647}

\* What the combo's Selectables report in one frame: nothing (the combo is
\* closed or no entry is clicked), one entry, or every entry.
SelectableInputs ==
    {{}} \cup {{i} : i \in 0..(SPEED_COUNT - 1)} \cup {0..(SPEED_COUNT - 1)}

Min(x, y) == IF x <= y THEN x ELSE y

Max(x, y) == IF x >= y THEN x ELSE y

\* The run counters after a call of the Cycle operation op.
RunAfter(op) ==
    IF panel_call.op = op THEN Min(panel_call.run + 1, MaxRun) ELSE 1

RunFromAfter(op) ==
    IF panel_call.op = op THEN panel_call.run_from ELSE panel.speed_index_

\* A call that is not a Cycle operation.
PanelStep(op, args, p, ret) ==
    /\ panel' = p
    /\ panel_call' = PanelCall(op, args, panel, ret, 0, 0)
    /\ UNCHANGED non_panel_vars

CycleSpeedUp ==
    /\ panel' = ControlPanel_CycleSpeedUp(panel)
    /\ panel_call' = PanelCall("CycleSpeedUp", NoPanelArgs, panel, 0,
                               RunAfter("CycleSpeedUp"), RunFromAfter("CycleSpeedUp"))
    /\ UNCHANGED non_panel_vars

CycleSpeedDown ==
    /\ panel' = ControlPanel_CycleSpeedDown(panel)
    /\ panel_call' = PanelCall("CycleSpeedDown", NoPanelArgs, panel, 0,
                               RunAfter("CycleSpeedDown"), RunFromAfter("CycleSpeedDown"))
    /\ UNCHANGED non_panel_vars

SetSpeedIndex ==
    \E index \in SpeedIndexInputs :
        PanelStep("SetSpeedIndex", [NoPanelArgs EXCEPT !.index = index],
                  ControlPanel_SetSpeedIndex(panel, index), 0)

GetSpeedMultiplier ==
    \E ret \in ControlPanel_GetSpeedMultiplier(panel) :
        PanelStep("GetSpeedMultiplier", NoPanelArgs, panel, ret)

SetVisible ==
    \E visible \in BOOLEAN :
        PanelStep("SetVisible", [NoPanelArgs EXCEPT !.flag = visible],
                  ControlPanel_SetVisible(panel, visible), 0)

SetRunning ==
    \E running \in BOOLEAN :
        PanelStep("SetRunning", [NoPanelArgs EXCEPT !.flag = running],
                  ControlPanel_SetRunning(panel, running), 0)

ToggleRunning ==
    PanelStep("ToggleRunning", NoPanelArgs, ControlPanel_ToggleRunning(panel), 0)

ClearStepRequest ==
    PanelStep("ClearStepRequest", NoPanelArgs, ControlPanel_ClearStepRequest(panel), 0)

Panel_Render ==
    \E run_click \in BOOLEAN, step_click \in BOOLEAN, exit_click \in BOOLEAN,
       selected \in SelectableInputs :
        /\ panel' = ControlPanel_Render(panel, run_click, step_click, selected,
                                        exit_click)
        /\ panel_call' =
              [PanelCall("Render",
                         [NoPanelArgs EXCEPT !.run_click = run_click,
                                             !.step_click = step_click,
                                             !.selected = selected,
                                             !.exit_click = exit_click],
                         panel, 0, 0, 0)
               EXCEPT !.calls = ControlPanel_RenderCalls(panel, run_click)]
        /\ UNCHANGED non_panel_vars

ControlNext ==
    \/ CycleSpeedUp
    \/ CycleSpeedDown
    \/ SetSpeedIndex
    \/ GetSpeedMultiplier
    \/ SetVisible
    \/ SetRunning
    \/ ToggleRunning
    \/ ClearStepRequest
    \/ Panel_Render

SpecControl == Init /\ [][ControlNext]_vars

\* C15: CycleSpeedUp adds exactly 1 to the speed index when it is below 6
\* and changes nothing at 6; CycleSpeedDown subtracts exactly 1 when it is
\* above 0 and changes nothing at 0.  So a run of k CycleSpeedUp calls from
\* index s ends at min(6, s + k) and a run of k CycleSpeedDown calls at
\* max(0, s - k): seven or more CycleSpeedUp calls from 3 end at 6
\* (multiplier 8.0) and seven or more CycleSpeedDown calls from 6 end at 0
\* (multiplier 0.125).
C15_CycleSpeedSaturates ==
    /\ panel_call.op = "CycleSpeedUp" =>
          /\ panel = [panel_call.pre EXCEPT !.speed_index_ =
                        IF panel_call.pre.speed_index_ < 6
                        THEN panel_call.pre.speed_index_ + 1 ELSE 6]
          /\ panel_call.pre.speed_index_ = 6 => panel = panel_call.pre
          /\ panel.speed_index_ = Min(6, panel_call.run_from + panel_call.run)
          /\ (panel_call.run_from = 3 /\ panel_call.run >= 7) =>
                /\ panel.speed_index_ = 6
                /\ ControlPanel_GetSpeedMultiplier(panel) = {8 * 8}
    /\ panel_call.op = "CycleSpeedDown" =>
          /\ panel = [panel_call.pre EXCEPT !.speed_index_ =
                        IF panel_call.pre.speed_index_ > 0
                        THEN panel_call.pre.speed_index_ - 1 ELSE 0]
          /\ panel_call.pre.speed_index_ = 0 => panel = panel_call.pre
          /\ panel.speed_index_ = Max(0, panel_call.run_from - panel_call.run)
          /\ (panel_call.run_from = 6 /\ panel_call.run >= 7) =>
                /\ panel.speed_index_ = 0
                /\ ControlPanel_GetSpeedMultiplier(panel) = {1}

\* The eighth CycleSpeedUp call in a row from index 3 found the index at 6
\* and left it there.
C15_Witness ==
    /\ panel_call.op = "CycleSpeedUp"
    /\ panel_call.run_from = 3
    /\ panel_call.run = 8
    /\ panel_call.pre.speed_index_ = 6
    /\ panel.speed_index_ = 6

\* C16: SetSpeedIndex(i) sets the speed index to i when 0 <= i <= 6 and
\* changes nothing else; for every other i, negative or 7 and above, the
\* panel is left exactly as it was.
C16_SetSpeedIndexRejectsOutOfRange ==
    panel_call.op = "SetSpeedIndex" =>
        IF panel_call.args.index \in 0..6
        THEN panel = [panel_call.pre EXCEPT !.speed_index_ = panel_call.args.index]
        ELSE panel = panel_call.pre

\* SetSpeedIndex(7) on a running panel at index 2 with a step requested
\* changed nothing.
C16_Witness ==
    /\ panel_call.op = "SetSpeedIndex"
    /\ panel_call.args.index = 7
    /\ panel_call.pre.speed_index_ = 2
    /\ panel_call.pre.running_
    /\ panel_call.pre.step_requested_
    /\ panel = panel_call.pre

\* C17: in every state reached by the panel's operations the speed index is
\* in 0..6, so GetSpeedMultiplier reads inside its table: it has exactly one
\* possible result, 2^(index - 3) (in eighths: 2^index), one of 1/8, 1/4,
\* 1/2, 1, 2, 4, 8, and that is what every call returned.
C17_SpeedIndexInTable ==
    /\ panel.speed_index_ \in 0..6
    /\ ControlPanel_GetSpeedMultiplier(panel) = {2 ^ panel.speed_index_}
    /\ panel_call.op = "GetSpeedMultiplier" =>
          /\ panel_call.ret = 2 ^ panel_call.pre.speed_index_
          /\ panel_call.ret \in {1, 2, 4, 8, 16, 32, 64}
          /\ panel = panel_call.pre

\* GetSpeedMultiplier returned 1/8 at index 0.
C17_Witness ==
    /\ panel_call.op = "GetSpeedMultiplier"
    /\ panel_call.pre.speed_index_ = 0
    /\ panel_call.ret = 1

\* C18: no operation on the panel resets the exit request: a call that
\* found the flag true leaves it true.
C18_ExitRequestMonotonic ==
    panel_call.pre.exit_requested_ => panel.exit_requested_

\* A visible panel with the exit request set was rendered without a click
\* on Exit, and the request is still set.
C18_Witness ==
    /\ panel_call.op = "Render"
    /\ panel_call.pre.visible_
    /\ panel_call.pre.exit_requested_
    /\ ~panel_call.args.exit_click
    /\ panel.exit_requested_

\* C19: the step request goes from true to false only in ClearStepRequest,
\* and ClearStepRequest always leaves it false.
C19_StepClearedOnlyByClear ==
    /\ (panel_call.pre.step_requested_ /\ ~panel.step_requested_) =>
          panel_call.op = "ClearStepRequest"
    /\ panel_call.op = "ClearStepRequest" => ~panel.step_requested_

\* A visible panel with a step requested was rendered without a click on
\* Step, and the request is still there.
C19_Witness ==
    /\ panel_call.op = "Render"
    /\ panel_call.pre.visible_
    /\ panel_call.pre.step_requested_
    /\ ~panel_call.args.step_click
    /\ panel.step_requested_

(***************************************************************************)
(* GBDebugger::RenderMemoryViewer, row by row                              *)
(***************************************************************************)

\* The entry whose header the inner loop draws before the row at addr: the
\* first i with addr == MEMORY_REGIONS[i].start (then break), 0 when the
\* loop finds none.  The C++ array is indexed from 0, the sequence from 1.
HeaderAt(addr) ==
    LET matches == {i \in 1..MEMORY_REGIONS_COUNT : addr = MEMORY_REGIONS[i].start}
    IN IF matches = {} THEN 0
       ELSE CHOOSE i \in matches : \A j \in matches : i <= j

\* uint16_t byte_addr = addr + i
ByteAddr(addr, i) == (addr + i) % 65536

\* The row read one byte late: bytes addr + 1 .. addr + 16.
RowBytes_FromNext(m, addr) == [i \in 1..16 |-> Read(m.buffer, ByteAddr(addr, i))]

\* The 16 bytes read for the row at addr.
RowBytes(m, addr) == [i \in 1..16 |-> Read(m.buffer, ByteAddr(addr, i - 1))]

\* The text column with DEL (127) taken for printable.
AsciiOf_Through127(byte) == IF byte >= 32 /\ byte <= 127 THEN byte ELSE 46

\* ascii_line[i]: the byte itself when printable, '.' (46) otherwise.
AsciiOf(byte) == IF byte >= 32 /\ byte <= 126 THEN byte ELSE 46

\* The buffers whose snapshot the viewer is given to draw.
ViewerBuffers == BufferPtrs \cup {"buf_ramp"}

\* A Coordinator holding no snapshot or one of the images.
ViewerInit ==
    /\ dbg \in {GBDebugger_UpdateMemory(GBDebugger_New, b, MEMORY_SIZE).d : b \in ViewerBuffers}
    /\ dbg_env = NoResources
    /\ dbg_alive = TRUE
    /\ backend = DebuggerBackend_New
    /\ backend_env = NoResources
    /\ backend_alive = TRUE
    /\ call = Call("none", "none", NoArgs, "void", <<>>)
    /\ mem_accepted = dbg.memory_state_.is_valid
    /\ probe = NoProbe
    /\ panel = ControlPanel_New
    /\ panel_call = NoPanelCall
    /\ viewer = NoViewer
    /\ data_panel = DataPanel_New("CPU State")
    /\ data_call = NoDataCall(data_panel)

\* RenderMemoryViewer entering the loop without the test of is_valid.
Viewer_Begin_NoValidCheck ==
    /\ viewer.pc = "idle"
    /\ viewer' = [NoViewer EXCEPT !.pc = "loop"]
    /\ UNCHANGED non_viewer_vars

\* RenderMemoryViewer up to the loop: Begin, then the placeholder and return
\* when the snapshot is not valid, else PushFont and addr = 0.
Viewer_Begin ==
    /\ viewer.pc = "idle"
    /\ viewer' = IF ~dbg.memory_state_.is_valid
                 THEN [NoViewer EXCEPT !.pc = "done", !.placeholder = TRUE]
                 ELSE [NoViewer EXCEPT !.pc = "loop"]
    /\ UNCHANGED non_viewer_vars

\* One pass of the loop with a uint16_t counter: addr += 16 wraps from
\* 0xFFF0 to 0 and the condition addr < 65536 never fails.
Viewer_Row_Uint16Counter ==
    /\ viewer.pc = "loop"
    /\ viewer.addr < 65536
    /\ LET h == HeaderAt(viewer.addr)
           bytes == RowBytes(dbg.memory_state_, viewer.addr)
       IN viewer' = [viewer EXCEPT
              !.headers = IF h = 0 THEN @
                          ELSE Append(@, [region |-> h, row |-> viewer.addr]),
              !.row = [addr |-> viewer.addr, header |-> h, bytes |-> bytes,
                       ascii |-> [i \in 1..16 |-> AsciiOf(bytes[i])]],
              !.rows = @ + 1,
              !.reads = @ + 16,
              !.addr = (@ + 16) % 65536]
    /\ UNCHANGED non_viewer_vars

\* One pass of the loop: the header if the row starts a region, the row, and
\* addr += 16.  addr stays far below 2^32, so the uint32_t sum is exact.
Viewer_Row ==
    /\ viewer.pc = "loop"
    /\ viewer.addr < 65536
    /\ LET h == HeaderAt(viewer.addr)
           bytes == RowBytes(dbg.memory_state_, viewer.addr)
       IN viewer' = [viewer EXCEPT
              !.headers = IF h = 0 THEN @
                          ELSE Append(@, [region |-> h, row |-> viewer.addr]),
              !.row = [addr |-> viewer.addr, header |-> h, bytes |-> bytes,
                       ascii |-> [i \in 1..16 |-> AsciiOf(bytes[i])]],
              !.rows = @ + 1,
              !.reads = @ + 16,
              !.addr = @ + 16]
    /\ UNCHANGED non_viewer_vars

\* The loop condition fails: PopFont, End.
Viewer_End ==
    /\ viewer.pc = "loop"
    /\ ~(viewer.addr < 65536)
    /\ viewer' = [viewer EXCEPT !.pc = "done"]
    /\ UNCHANGED non_viewer_vars

ViewerNext ==
    \/ Viewer_Begin
    \/ Viewer_Row
    \/ Viewer_End

SpecViewer == ViewerInit /\ [][ViewerNext]_vars

\* The row that contains address a.
RowOf(a) == 16 * (a \div 16)

\* C20: when the viewer has rendered a valid snapshot, it has drawn the
\* header of each of the 12 regions exactly once, in ascending address
\* order, each before the row that contains the region's start address.
C20_OneHeaderPerRegion ==
    (viewer.pc = "done" /\ ~viewer.placeholder) =>
        /\ Len(viewer.headers) = MEMORY_REGIONS_COUNT
        /\ \A i \in 1..MEMORY_REGIONS_COUNT :
              /\ viewer.headers[i].region = i
              /\ viewer.headers[i].row = RowOf(MEMORY_REGIONS[i].start)

\* The viewer is drawing or has drawn the rows of a valid snapshot.
DrawingRows == viewer.pc = "loop" \/ (viewer.pc = "done" /\ ~viewer.placeholder)

\* C21: rendering a valid snapshot draws the rows 0x0000, 0x0010, ... in
\* ascending order, each carrying the 16 snapshot bytes from its address
\* on, and ends after exactly 4096 rows, the last one at 0xFFF0: every
\* address 0..65535 is in exactly one row.
C21_RowsCoverSnapshot ==
    /\ DrawingRows =>
          /\ viewer.addr = 16 * viewer.rows
          /\ viewer.rows > 0 =>
                /\ viewer.row.addr = 16 * (viewer.rows - 1)
                /\ Len(viewer.row.bytes) = 16
                /\ \A i \in 0..15 :
                      /\ viewer.row.addr + i \in Addresses
                      /\ viewer.row.bytes[i + 1] =
                            IF viewer.row.addr + i \in DOMAIN dbg.memory_state_.buffer
                            THEN dbg.memory_state_.buffer[viewer.row.addr + i]
                            ELSE 0
    /\ (viewer.pc = "done" /\ ~viewer.placeholder) =>
          /\ viewer.rows = 4096
          /\ viewer.row.addr = 65520

\* The viewer is done with a snapshot that holds 0xCD at 0xFFFF: the last
\* of the 4096 rows is 0xFFF0 and ends in that byte.
C21_Witness ==
    /\ viewer.pc = "done"
    /\ ~viewer.placeholder
    /\ viewer.rows = 4096
    /\ viewer.row.addr = 65520
    /\ viewer.row.bytes[16] = 205

\* C22: the text column of every row drawn has exactly 16 characters; a
\* byte in 32..126 is shown as the character with that code, and a byte in
\* 0..31 or 127..255 as '.' (code 46).
C22_TextColumnPrintableOrDot ==
    (DrawingRows /\ viewer.rows > 0) =>
        /\ Len(viewer.row.ascii) = 16
        /\ \A i \in 1..16 :
              LET byte == viewer.row.bytes[i]
              IN /\ byte \in 0..255
                 /\ byte \in 32..126 => viewer.row.ascii[i] = byte
                 /\ byte \in (0..31) \cup (127..255) => viewer.row.ascii[i] = 46

\* The row 0x0070 of the snapshot that holds byte a at address a: it ends
\* in '~' (126) followed by '.' for DEL (127).
C22_Witness ==
    /\ DrawingRows
    /\ viewer.row.addr = 112
    /\ viewer.row.bytes[15] = 126 /\ viewer.row.ascii[15] = 126
    /\ viewer.row.bytes[16] = 127 /\ viewer.row.ascii[16] = 46

\* C23: when the snapshot is not valid the viewer draws the placeholder and
\* returns: it draws no row and no region header and reads no snapshot
\* byte; with a valid snapshot it never draws the placeholder.
C23_InvalidSnapshotPlaceholderOnly ==
    /\ (viewer.pc # "idle" /\ ~dbg.memory_state_.is_valid) =>
          /\ viewer.pc = "done"
          /\ viewer.placeholder
          /\ viewer.rows = 0
          /\ viewer.row = NoRow
          /\ viewer.headers = <<>>
          /\ viewer.reads = 0
    /\ viewer.placeholder => ~dbg.memory_state_.is_valid

\* The viewer has returned after drawing the placeholder for a Coordinator
\* whose UpdateMemory was never accepted.
C23_Witness ==
    /\ viewer.pc = "done"
    /\ viewer.placeholder
    /\ ~dbg.memory_state_.is_valid
    /\ ~mem_accepted
    /\ viewer.reads = 0

(***************************************************************************)
(* The four panels, one object at a time                                   *)
(***************************************************************************)

\* A call on the snapshot-holding panel that is not an Update that takes
\* effect.
DataStep(op, args, p, ret, calls) ==
    /\ data_panel' = p
    /\ data_call' = DataCall(op, args, data_panel, ret, calls,
                             data_call.held, data_call.held_hidden)
    /\ UNCHANGED non_data_vars

Data_SetVisible ==
    \E visible \in BOOLEAN :
        DataStep("SetVisible", [NoDataArgs EXCEPT !.flag = visible],
                 DataPanel_SetVisible(data_panel, visible), "void", <<>>)

Data_Render ==
    LET o == DataPanel_Render(data_panel)
    IN DataStep("Render", NoDataArgs, o.p, "void", o.calls)

Data_UpdateCPU ==
    /\ data_panel.kind \in {"CPU State", "CPU Flags"}
    /\ \E c \in CPUInputs :
          LET args == [NoDataArgs EXCEPT !.cpu = c]
          IN /\ data_panel' = DataPanel_UpdateCPU(data_panel, c)
             /\ data_call' = DataCall("Update", args, data_panel, "void", <<>>,
                                      args, ~data_panel.visible_)
             /\ UNCHANGED non_data_vars

Data_UpdateMemory ==
    /\ data_panel.kind = "Memory Viewer"
    /\ \E buffer \in BufferPtrs, size \in Sizes :
          LET args == [NoDataArgs EXCEPT !.buffer = buffer, !.size = size]
              o == DataPanel_UpdateMemory(data_panel, buffer, size)
          IN /\ data_panel' = o.p
             /\ data_call' =
                   IF o.ret = "true"
                   THEN DataCall("Update", args, data_panel, o.ret, <<>>,
                                 args, ~data_panel.visible_)
                   ELSE DataCall("Update", args, data_panel, o.ret, <<>>,
                                 data_call.held, data_call.held_hidden)
             /\ UNCHANGED non_data_vars

DataNext ==
    \/ Data_SetVisible
    \/ Data_Render
    \/ Data_UpdateCPU
    \/ Data_UpdateMemory

\* One panel of each of the three snapshot-holding classes, and the
\* ControlPanel, as constructed.
PanelsInit ==
    /\ data_panel \in {DataPanel_New(kind) : kind \in DataPanelKinds}
    /\ data_call = NoDataCall(data_panel)
    /\ panel = ControlPanel_New
    /\ panel_call = NoPanelCall
    /\ viewer = NoViewer
    /\ dbg = GBDebugger_New
    /\ dbg_env = NoResources
    /\ dbg_alive = TRUE
    /\ backend = DebuggerBackend_New
    /\ backend_env = NoResources
    /\ backend_alive = TRUE
    /\ call = Call("none", "none", NoArgs, "void", <<>>)
    /\ mem_accepted = FALSE
    /\ probe = NoProbe

\* The panel objects share no state: the calls are followed on one of them
\* at a time, the other staying as constructed.
PanelsNext ==
    \/ data_call.op = "none" /\ ControlNext
    \/ panel_call.op = "none" /\ DataNext

SpecPanels == PanelsInit /\ [][PanelsNext]_vars

\* C24: every panel starts visible; a Render of a hidden panel makes no
\* ImGui call and leaves the panel's fields as they were, for the Control
\* panel whatever buttons are clicked and combo entries selected; a Render
\* of a visible panel draws, and SetVisible(true) makes the panel visible.
C24_HiddenRenderIsNoop ==
    /\ panel_call.op = "none" => panel.visible_
    /\ data_call.op = "none" => data_panel.visible_
    /\ panel_call.op = "Render" =>
          IF panel_call.pre.visible_
          THEN panel_call.calls # <<>>
          ELSE panel_call.calls = <<>> /\ panel = panel_call.pre
    /\ data_call.op = "Render" =>
          IF data_call.pre.visible_
          THEN data_call.calls # <<>>
          ELSE data_call.calls = <<>> /\ data_panel = data_call.pre
    /\ panel_call.op = "SetVisible" => panel.visible_ = panel_call.args.flag
    /\ data_call.op = "SetVisible" => data_panel.visible_ = data_call.args.flag

\* A hidden Control panel was rendered with every button clicked and a
\* combo entry selected, and nothing changed.
C24_Witness ==
    /\ panel_call.op = "Render"
    /\ ~panel_call.pre.visible_
    /\ panel_call.args.run_click
    /\ panel_call.args.step_click
    /\ panel_call.args.exit_click
    /\ panel_call.args.selected = {0}
    /\ panel_call.pre.speed_index_ # 0
    /\ panel = panel_call.pre
    /\ panel_call.calls = <<>>

\* The snapshot a panel must hold after the Update calls so far, held being
\* the arguments of the last one that took effect (none: as constructed).
HeldSnapshot(kind, held) ==
    IF kind = "Memory Viewer"
    THEN IF held.buffer = NULL THEN [buffer |-> ZeroImage, is_valid |-> FALSE]
         ELSE [buffer |-> Deref(held.buffer), is_valid |-> TRUE]
    ELSE held.cpu

\* C25: Update is applied whether the panel is visible or hidden: a CPU
\* panel then holds the snapshot given, the memory panel the bytes of an
\* acceptable buffer; and SetVisible and Render never change the snapshot,
\* so after SetVisible(false), Update(x), SetVisible(true) the panel holds x.
C25_UpdateIgnoresVisibility ==
    /\ data_call.op = "Update" =>
          /\ data_panel.visible_ = data_call.pre.visible_
          /\ IF data_panel.kind = "Memory Viewer"
             THEN IF AcceptableUpdate(data_call.args)
                  THEN /\ data_call.ret = "true"
                       /\ data_panel.state_.is_valid
                       /\ SameBytes(data_panel.state_.buffer,
                                    Deref(data_call.args.buffer))
                  ELSE /\ data_call.ret = "false"
                       /\ data_panel = data_call.pre
             ELSE data_panel.state_ = data_call.args.cpu
    /\ data_call.op \in {"SetVisible", "Render"} =>
          data_panel.state_ = data_call.pre.state_
    /\ data_panel.state_ = HeldSnapshot(data_panel.kind, data_call.held)

\* A hidden memory panel was given the buffer with 0xCD at 0xFFFF and has
\* now been made visible again: it holds that buffer's bytes.
C25_Witness ==
    /\ data_panel.kind = "Memory Viewer"
    /\ data_call.op = "SetVisible"
    /\ data_call.args.flag
    /\ ~data_call.pre.visible_
    /\ data_call.held_hidden
    /\ data_call.held.buffer = "buf_cd"
    /\ data_panel.visible_
    /\ data_panel.state_.is_valid
    /\ Read(data_panel.state_.buffer, 65535) = 205

(***************************************************************************)
(* C26 .. C30: the control state                                           *)
(***************************************************************************)

\* C26: from every control state SetRunning(b) leaves IsRunning() = b, and
\* a second SetRunning(b) changes nothing more; ToggleRunning negates
\* IsRunning(), and a second ToggleRunning gives back the state the first
\* one found; neither depends on the step request, the exit request or the
\* speed index.
C26_RunStopUnguarded ==
    /\ panel_call.op = "SetRunning" =>
          /\ panel.running_ = panel_call.args.flag
          /\ panel = [panel_call.pre EXCEPT !.running_ = panel_call.args.flag]
          /\ ControlPanel_SetRunning(panel, panel_call.args.flag) = panel
    /\ panel_call.op = "ToggleRunning" =>
          /\ panel.running_ = ~panel_call.pre.running_
          /\ panel = [panel_call.pre EXCEPT !.running_ = ~panel_call.pre.running_]
          /\ ControlPanel_ToggleRunning(panel) = panel_call.pre

\* SetRunning(true) on a stopped panel with a step and an exit requested at
\* speed index 6 made it run.
C26_Witness ==
    /\ panel_call.op = "SetRunning"
    /\ panel_call.args.flag
    /\ ~panel_call.pre.running_
    /\ panel_call.pre.step_requested_
    /\ panel_call.pre.exit_requested_
    /\ panel_call.pre.speed_index_ = 6
    /\ panel.running_

\* The panel with field f of the state the call found replaced by its
\* value now.
OnlyChanged(f) == [panel_call.pre EXCEPT ![f] = panel[f]]

\* C27: SetRunning and ToggleRunning change only the run flag, the three
\* speed operations only the speed index, ClearStepRequest only the step
\* request and SetVisible only the visibility; so a pending step request
\* survives the run flag becoming true.
C27_FieldsOrthogonal ==
    /\ panel_call.op \in {"SetRunning", "ToggleRunning"} =>
          /\ panel = OnlyChanged("running_")
          /\ panel_call.pre.step_requested_ => panel.step_requested_
    /\ panel_call.op \in {"CycleSpeedUp", "CycleSpeedDown", "SetSpeedIndex"} =>
          panel = OnlyChanged("speed_index_")
    /\ panel_call.op = "ClearStepRequest" => panel = OnlyChanged("step_requested_")
    /\ panel_call.op = "SetVisible" => panel = OnlyChanged("visible_")
    /\ panel_call.op = "GetSpeedMultiplier" => panel = panel_call.pre

\* ToggleRunning started a panel that had a step requested: it is now
\* running with the step still requested.
C27_Witness ==
    /\ panel_call.op = "ToggleRunning"
    /\ ~panel_call.pre.running_
    /\ panel_call.pre.step_requested_
    /\ panel.running_
    /\ panel.step_requested_

\* C28: a newly constructed Control panel is visible, not running, without
\* step or exit request and at speed index 3 (multiplier 1.0); a newly
\* constructed Coordinator is closed, its CPU snapshot all zero with ime
\* false, and ShouldClose() is false.
C28_AsConstructed ==
    /\ panel_call.op = "none" =>
          /\ panel.visible_
          /\ ~panel.running_
          /\ ~panel.step_requested_
          /\ ~panel.exit_requested_
          /\ panel.speed_index_ = 3
          /\ ControlPanel_GetSpeedMultiplier(panel) = {8}
    /\ call.op = "none" =>
          /\ ~dbg.is_open_
          /\ ~dbg.should_close_
          /\ dbg.cpu_state_.cycle = 0
          /\ dbg.cpu_state_.pc = 0
          /\ dbg.cpu_state_.sp = 0
          /\ dbg.cpu_state_.af = 0
          /\ dbg.cpu_state_.bc = 0
          /\ dbg.cpu_state_.de = 0
          /\ dbg.cpu_state_.hl = 0
          /\ dbg.cpu_state_.ime = FALSE

\* The panel and the Coordinator exist and no call has been made on either.
C28_Witness ==
    /\ panel_call.op = "none"
    /\ call.op = "none"
    /\ dbg_alive
    /\ panel.visible_
    /\ ~dbg.is_open_

\* A visible panel has been rendered.
RenderedVisible == panel_call.op = "Render" /\ panel_call.pre.visible_

\* C29: one Render of a visible panel changes the control state only as
\* the frame's input says: the Run/Stop button negates running and nothing
\* else changes it; the step request changes only by being set under a
\* click on Step, the exit request only by being set under a click on
\* Exit; a selected combo entry becomes the speed index (in 0..6) and
\* without a selection the index stays; with no input nothing changes.
C29_RenderFollowsInput ==
    RenderedVisible =>
        LET pre == panel_call.pre
            in == panel_call.args
        IN /\ panel.visible_
           /\ panel.running_ = IF in.run_click THEN ~pre.running_ ELSE pre.running_
           /\ panel.step_requested_ # pre.step_requested_ =>
                 in.step_click /\ panel.step_requested_
           /\ panel.exit_requested_ = (pre.exit_requested_ \/ in.exit_click)
           /\ panel.speed_index_ \in 0..6
           /\ in.selected = {} => panel.speed_index_ = pre.speed_index_
           /\ in.selected # {} => panel.speed_index_ \in in.selected
           /\ (~in.run_click /\ ~in.step_click /\ ~in.exit_click /\ in.selected = {})
                 => panel = pre

\* A running panel at index 3 without requests was rendered with clicks on
\* Stop and Exit and the entry 5 selected: it is stopped, exit is requested
\* and the index is 5.
C29_Witness ==
    /\ RenderedVisible
    /\ panel_call.pre.running_
    /\ ~panel_call.pre.exit_requested_
    /\ panel_call.pre.speed_index_ = 3
    /\ panel_call.args.run_click
    /\ panel_call.args.exit_click
    /\ panel_call.args.selected = {5}
    /\ ~panel.running_
    /\ panel.exit_requested_
    /\ panel.speed_index_ = 5

\* C30: a Render sets the step request only under a click on Step with the
\* run flag false after the Run/Stop button of the same Render; a Render
\* that leaves the panel running, whether it was running or has just been
\* started, leaves the step request as it was, and a click on Step with the
\* run flag false sets it.
C30_StepOnlyWhenNotRunning ==
    RenderedVisible =>
        /\ (~panel_call.pre.step_requested_ /\ panel.step_requested_) =>
              /\ panel_call.args.step_click
              /\ ~panel.running_
        /\ panel.running_ => panel.step_requested_ = panel_call.pre.step_requested_
        /\ (panel_call.args.step_click /\ ~panel.running_) => panel.step_requested_

\* A stopped panel without a step request was rendered with clicks on both
\* Run and Step: it is running and no step is requested.
C30_Witness ==
    /\ RenderedVisible
    /\ ~panel_call.pre.running_
    /\ ~panel_call.pre.step_requested_
    /\ panel_call.args.run_click
    /\ panel_call.args.step_click
    /\ panel.running_
    /\ ~panel.step_requested_

(***************************************************************************)
(* C31 .. C33: the Coordinator's backend state and frames                  *)
(***************************************************************************)

\* C31: in every state SDL-initialized implies open, and SDL-initialized
\* holds exactly when the window handle and the GL context are both
\* non-null (the same for the DebuggerBackend's initialized_); a failed
\* InitSDL or Initialize leaves both handles null, and Close leaves the
\* Coordinator closed, not SDL-initialized, with both handles null.
C31_SDLInitializedMeansHandles ==
    /\ dbg.sdl_initialized_ => dbg.is_open_
    /\ dbg.sdl_initialized_ <=> (dbg.sdl_window_ # NULL /\ dbg.gl_context_ # NULL)
    /\ backend.initialized_ <=> (backend.window_ # NULL /\ backend.gl_context_ # NULL)
    /\ (DbgCalled(call, "InitSDL") /\ call.ret = "false") =>
          /\ dbg.sdl_window_ = NULL
          /\ dbg.gl_context_ = NULL
          /\ ~dbg.sdl_initialized_
    /\ (BackendCalled(call, "Initialize") /\ call.ret = "false") =>
          /\ backend.window_ = NULL
          /\ backend.gl_context_ = NULL
    /\ DbgCalled(call, "Close") =>
          /\ ~dbg.is_open_
          /\ ~dbg.sdl_initialized_
          /\ dbg.sdl_window_ = NULL
          /\ dbg.gl_context_ = NULL
    /\ BackendCalled(call, "Shutdown") =>
          /\ ~backend.initialized_
          /\ backend.window_ = NULL
          /\ backend.gl_context_ = NULL

\* InitSDL created the window, failed to create the GL context and
\* destroyed the window again.
C31_Witness ==
    /\ DbgCalled(call, "InitSDL")
    /\ call.ret = "false"
    /\ \E i \in 1..Len(call.calls) : call.calls[i] = "SDL_DestroyWindow"
    /\ dbg.sdl_window_ = NULL
    /\ dbg.gl_context_ = NULL

\* The close event of the window with the given id.
CloseEventOf(id) ==
    [present |-> TRUE, type |-> "SDL_WINDOWEVENT", event |-> "SDL_WINDOWEVENT_CLOSE",
     windowID |-> id]

Occurrences(calls, x) == Len(SelectSeq(calls, LAMBDA c : c = x))

\* The call trace without its first and last call.
Inner(calls) == SubSeq(calls, 2, Len(calls) - 1)

\* C33: a Render of an open Coordinator without the SDL backend begins
\* exactly one frame, draws the panels inside it and ends it, and leaves no
\* frame open; a Render with the SDL backend initialized draws the panels
\* only, begins and ends no frame, and leaves the frame state as the
\* caller's BeginFrame/EndFrame set it.
C33_RenderFramesOnlyHeadless ==
    /\ []((DbgCalled(call, "Render") /\ dbg.is_open_ /\ ~dbg.sdl_initialized_) =>
            /\ Occurrences(call.calls, "ImGui::NewFrame") = 1
            /\ Occurrences(call.calls, "ImGui::Render") = 1
            /\ Head(call.calls) = "ImGui::NewFrame"
            /\ call.calls[Len(call.calls)] = "ImGui::Render"
            /\ Len(PanelsBegun(Inner(call.calls))) = 3
            /\ Occurrences(Inner(call.calls), "ImGui::End") = 3
            /\ ~dbg_env.in_frame)
    /\ []((DbgCalled(call, "Render") /\ dbg.is_open_ /\ dbg.sdl_initialized_) =>
            /\ Occurrences(call.calls, "ImGui::NewFrame") = 0
            /\ Occurrences(call.calls, "ImGui::Render") = 0
            /\ Len(PanelsBegun(call.calls)) = 3
            /\ Occurrences(call.calls, "ImGui::End") = 3)
    /\ [][(DbgCalled(call', "Render") /\ dbg.sdl_initialized_)
             => dbg_env'.in_frame = dbg_env.in_frame]_vars

\* A Render made between BeginFrame and EndFrame with the SDL backend
\* initialized: the caller's frame is still open after it.
C33_Witness ==
    /\ DbgCalled(call, "Render")
    /\ dbg.is_open_
    /\ dbg.sdl_initialized_
    /\ dbg_env.in_frame
    /\ Len(PanelsBegun(call.calls)) = 3

\* A headless Render that framed its own panels.
C33_WitnessHeadless ==
    /\ DbgCalled(call, "Render")
    /\ dbg.is_open_
    /\ ~dbg.sdl_initialized_
    /\ Occurrences(call.calls, "ImGui::NewFrame") = 1

(***************************************************************************)
(* C34: the row loop of GBDebugger::RenderMemoryViewer ends                *)
(***************************************************************************)

\* The row loop runs on: a pass that can be taken is taken.
SpecViewerFair == SpecViewer /\ WF_vars(ViewerNext)

\* C34: the row counter goes up by 16 from 0 to 0xFFF0, never returns to 0,
\* and the loop ends when it reaches 65536, after 4096 rows; every byte
\* address row + i (0 <= i <= 15) is within 0..0xFFFF and is what the 16-bit
\* byte_addr holds, so no read wraps or leaves the snapshot; and a loop
\* that was entered is left.
C34_RowLoopTerminatesWithoutWrap ==
    /\ [](DrawingRows => (viewer.addr \in 0..65536 /\ viewer.addr % 16 = 0))
    /\ []((DrawingRows /\ viewer.rows > 0) =>
            /\ viewer.row.addr \in 0..65520
            /\ \A i \in 0..15 :
                  /\ viewer.row.addr + i \in 0..65535
                  /\ ByteAddr(viewer.row.addr, i) = viewer.row.addr + i)
    /\ [][(viewer.pc = "loop" /\ viewer'.pc = "loop") =>
             /\ viewer.addr <= 65520
             /\ viewer'.addr = viewer.addr + 16
             /\ viewer'.addr # 0
             /\ viewer'.row.addr = viewer.addr]_vars
    /\ [][(viewer.pc = "loop" /\ viewer'.pc = "done") =>
             /\ viewer.addr = 65536
             /\ viewer.rows = 4096
             /\ viewer'.reads = 65536]_vars
    /\ (viewer.pc = "loop") ~> (viewer.pc = "done")

\* The loop has ended with the counter at 65536, and the last byte address
\* it computed is 0xFFFF.
C34_Witness ==
    /\ viewer.pc = "done"
    /\ ~viewer.placeholder
    /\ viewer.addr = 65536
    /\ ByteAddr(viewer.row.addr, 15) = 65535

(***************************************************************************)
(* CPUState and MEMORY_REGIONS as src/include/GBDebugger.h defines them    *)
(***************************************************************************)

\* CPUState::GetZFlag .. GetCFlag of GBDebugger.h.
GBDebugger_h_GetZFlag(c) == BitAnd(c.af, 128) # 0

GBDebugger_h_GetNFlag(c) == BitAnd(c.af, 64) # 0

GBDebugger_h_GetHFlag(c) == BitAnd(c.af, 32) # 0

GBDebugger_h_GetCFlag(c) == BitAnd(c.af, 16) # 0

\* CPUState::GetA .. GetL of GBDebugger.h.
GBDebugger_h_GetA(c) == ToUint8(BitAnd(ShiftRight(c.af, 8), 255))

GBDebugger_h_GetF(c) == ToUint8(BitAnd(c.af, 255))

GBDebugger_h_GetB(c) == ToUint8(BitAnd(ShiftRight(c.bc, 8), 255))

GBDebugger_h_GetC(c) == ToUint8(BitAnd(c.bc, 255))

GBDebugger_h_GetD(c) == ToUint8(BitAnd(ShiftRight(c.de, 8), 255))

\* E read from the wrong pair: the low byte of HL.
GBDebugger_h_GetE_FromHL(c) == ToUint8(BitAnd(c.hl, 255))

GBDebugger_h_GetE(c) == ToUint8(BitAnd(c.de, 255))

GBDebugger_h_GetH(c) == ToUint8(BitAnd(ShiftRight(c.hl, 8), 255))

GBDebugger_h_GetL(c) == ToUint8(BitAnd(c.hl, 255))

\* The table of GBDebugger.h (colours left out).
GBDebugger_h_MEMORY_REGIONS ==
    << Region("ROM Bank 0",        0, 16383),   \* 0x0000 - 0x3FFF
       Region("ROM Bank N",    16384, 32767),   \* 0x4000 - 0x7FFF
       Region("VRAM",          32768, 40959),   \* 0x8000 - 0x9FFF
       Region("External RAM",  40960, 49151),   \* 0xA000 - 0xBFFF
       Region("WRAM Bank 0",   49152, 53247),   \* 0xC000 - 0xCFFF
       Region("WRAM Bank N",   53248, 57343),   \* 0xD000 - 0xDFFF
       Region("Echo RAM",      57344, 65023),   \* 0xE000 - 0xFDFF
       Region("OAM",           65024, 65183),   \* 0xFE00 - 0xFE9F
       Region("Unusable",      65184, 65279),   \* 0xFEA0 - 0xFEFF
       Region("I/O Registers", 65280, 65407),   \* 0xFF00 - 0xFF7F
       Region("HRAM",          65408, 65534),   \* 0xFF80 - 0xFFFE
       Region("IE Register",   65535, 65535) >> \* 0xFFFF - 0xFFFF

\* No entry of a table.
NoRegion == Region("", 0, 0)

\* Entry i of a table (the C++ array is indexed from 0, the sequence from
\* 1); NoRegion when the table has no such entry.
EntryOf(table, i) == IF i \in 1..Len(table) THEN table[i] ELSE NoRegion

\* The longer of the two tables' lengths.
MaxEntries == Max(Len(MEMORY_REGIONS), Len(GBDebugger_h_MEMORY_REGIONS))

\* One register pair takes any uint16_t value, or one index of the tables
\* is picked.
HeadersInit ==
    /\ ObjectsInit
    /\ probe \in
          {[stage |-> "cpu", pair |-> r, cpu |-> [BaseCPU EXCEPT ![r] = v],
            out |-> NoDecode, out_h |-> NoDecode] : r \in Pairs, v \in 0..65535}
          \cup
          {[stage |-> "index", index |-> i, entry |-> NoRegion, entry_h |-> NoRegion]
              : i \in 1..MaxEntries}

\* Every accessor of the snapshot is called, as each header defines it.
DecodeBoth ==
    /\ probe.stage = "cpu"
    /\ LET c == probe.cpu
       IN probe' = [probe EXCEPT
              !.stage = "decoded",
              !.out = [zf |-> GetZFlag(c), nf |-> GetNFlag(c),
                       hf |-> GetHFlag(c), cf |-> GetCFlag(c),
                       a |-> GetA(c), f |-> GetF(c), b |-> GetB(c), c |-> GetC(c),
                       d |-> GetD(c), e |-> GetE(c), h |-> GetH(c), l |-> GetL(c)],
              !.out_h = [zf |-> GBDebugger_h_GetZFlag(c), nf |-> GBDebugger_h_GetNFlag(c),
                         hf |-> GBDebugger_h_GetHFlag(c), cf |-> GBDebugger_h_GetCFlag(c),
                         a |-> GBDebugger_h_GetA(c), f |-> GBDebugger_h_GetF(c),
                         b |-> GBDebugger_h_GetB(c), c |-> GBDebugger_h_GetC(c),
                         d |-> GBDebugger_h_GetD(c), e |-> GBDebugger_h_GetE(c),
                         h |-> GBDebugger_h_GetH(c), l |-> GBDebugger_h_GetL(c)]]
    /\ UNCHANGED object_vars

\* The entry at the index is read from each header's table.
ReadEntries ==
    /\ probe.stage = "index"
    /\ probe' = [probe EXCEPT
          !.stage = "entries",
          !.entry = EntryOf(MEMORY_REGIONS, probe.index),
          !.entry_h = EntryOf(GBDebugger_h_MEMORY_REGIONS, probe.index)]
    /\ UNCHANGED object_vars

HeadersNext ==
    \/ DecodeBoth
    \/ ReadEntries

SpecHeaders == HeadersInit /\ [][HeadersNext]_vars

\* C35: the region tables of DebuggerTypes.h and GBDebugger.h have the same
\* number of entries and the same name, start and end at every index, and
\* for every 16-bit value of each register pair the flag and sub-register
\* accessors of the two CPUState definitions return the same values.
C35_HeadersAgree ==
    /\ Len(GBDebugger_h_MEMORY_REGIONS) = Len(MEMORY_REGIONS)
    /\ probe.stage = "entries" =>
          /\ probe.entry # NoRegion
          /\ probe.entry_h.name = probe.entry.name
          /\ probe.entry_h.start = probe.entry.start
          /\ probe.entry_h.end = probe.entry.end
    /\ probe.stage = "decoded" =>
          \A k \in DOMAIN NoDecode : probe.out_h[k] = probe.out[k]

\* DE = 0x12F0 has been decoded by both definitions into D = 0x12 and
\* E = 0xF0.
C35_Witness ==
    /\ probe.stage = "decoded"
    /\ probe.pair = "de"
    /\ probe.cpu.de = 4848
    /\ probe.out.d = 18 /\ probe.out_h.d = 18
    /\ probe.out.e = 240 /\ probe.out_h.e = 240

\* The last entry has been read from both tables: IE Register, 0xFFFF.
C35_WitnessTable ==
    /\ probe.stage = "entries"
    /\ probe.index = 12
    /\ probe.entry_h = Region("IE Register", 65535, 65535)
    /\ probe.entry = probe.entry_h

====
